---- MODULE Spec2Model ----
(***************************************************************************)
(* A model of fabric.js' free-hand brushes: the eraser brush's pattern     *)
(* preparation and asynchronous erase-path fan-out (eraser_brush.mixin.ts),*)
(* the pencil brush's stroke session (PencilBrush) and the geometry the    *)
(* eraser relies on (ObjectGeometry).                                      *)
(***************************************************************************)
EXTENDS Integers, Sequences, FiniteSets, TLC

VARIABLES
    \* ---- the scene (fabric.Object fields), fixed during a run
    erasable,       \* obj.erasable: "false" | "true" | "deep"
    clipPath,       \* the collections that carry a clipPath
    _objects,       \* canvas._objects, bottom to top
    drawable,       \* canvas.backgroundImage / canvas.overlayImage ("none" = unset)
    vpt,            \* canvas.viewportTransform, a translation <<tx, ty>>
    aCoords,        \* obj.aCoords of the top-level objects, as stored by setCoords
    lineCoords,     \* obj.lineCoords of the top-level objects, as stored by setCoords
    \* ---- erasers
    eraser,         \* obj.eraser: whether it is set, and its paths (gesture ids; 0 = an older path)
    dirty,          \* the objects whose dirty flag has been set
    \* ---- EraserBrush and its gestures
    isErasing,      \* EraserBrush._isErasing
    gest,           \* one record per finalized gesture: its path, context and canvas events
    tasks,          \* the clone promises of the fan-outs
    objFired,       \* obj.fire('erasing:end') per object: the gestures it was fired for
    \* ---- EraserBrush.preparePattern
    visible,        \* obj.visible
    inverted,       \* EraserBrush.inverted
    backgroundColor,\* canvas.backgroundColor is set
    overlayColor,   \* canvas.overlayColor is set
    pattern,        \* the frame of preparePattern: position, locals, the state at the call
    \* ---- PencilBrush
    _points,        \* the captured points [x, y, s]; s = the session that captured the point
    _hasStraightLine,
    drawStraightLine,
    oldEnd,         \* <<>> = undefined, or <<p1, p2>>: the midpoint drawSegment(p1, p2) returned
    translucent,    \* BaseBrush.needsFullRender(): the colour is not opaque or there is a shadow
    limitedToCanvasSize,
    session,        \* the number of main pointer-downs so far
    pencilLog,      \* what the last handler of the brush did on the canvas
    \* ---- ObjectGeometry
    props,          \* the properties of the objects of the matrix cache, group included
    ownMatrixCache, \* obj.ownMatrixCache: <<>> = undefined, or [key, value]
    matrixCache,    \* obj.matrixCache
    \* ---- utilities
    call            \* a call of a utility function: its arguments and, once made, its result

sceneVars == <<erasable, clipPath, _objects, drawable, vpt, aCoords, lineCoords>>

eraserVars == <<eraser, dirty, isErasing, gest, tasks, objFired>>

patternVars == <<visible, inverted, backgroundColor, overlayColor, pattern>>

pencilVars == <<_points, _hasStraightLine, drawStraightLine, oldEnd, translucent,
                limitedToCanvasSize, session, pencilLog>>

objectVars == <<props, ownMatrixCache, matrixCache>>

vars == <<sceneVars, eraserVars, patternVars, pencilVars, objectVars, call>>

\* ------------------------------------------------------------------ bounds
MaxGestures == 2
MaxFail == 1
MaxTasks == 4
MaxSessions == 2
MaxPoints == 3
MaxLen == 5
MaxCoord == 2
MaxMatrices == 4

\* ------------------------------------------------------------------ scene
\* canvas._objects = [a, g] at first; g._objects = [b, h]; h._objects = [c]
TopObjects == <<"a", "g">>
Collections == {"g", "h"}
Drawables == {"bg", "ov"}
Objs == {"a", "g", "b", "h", "c", "bg", "ov"}
Props == <<"backgroundImage", "overlayImage">>

\* collection._objects
Objects(o) ==
    CASE o = "g" -> <<"b", "h">>
      [] o = "h" -> <<"c">>
      [] OTHER -> <<>>

\* obj.group
Group(o) ==
    CASE o \in {"b", "h"} -> "g"
      [] o = "c" -> "h"
      [] OTHER -> "none"

\* obj.forEachObject is defined
HasForEachObject(o) == o \in Collections

Range(s) == {s[i] : i \in 1..Len(s)}

RECURSIVE Flatten(_)
Flatten(ss) == IF ss = <<>> THEN <<>> ELSE Head(ss) \o Flatten(Tail(ss))

\* JavaScript truthiness of an `erasable` value
Truthy(v) == v # "false"

\* ------------------------------------------------------------------ geometry
\* Objects are unrotated, unscaled rectangles with origin left/top and no
\* stroke or padding; a corner set {tl, tr, br, bl} is kept as the rectangle
\* [l, t, r, b] it spans.
Geometry(o) ==
    CASE o = "a" -> [left |-> 0, top |-> 0, width |-> 4, height |-> 4]
      [] OTHER   -> [left |-> 6, top |-> 0, width |-> 4, height |-> 4]

\* ObjectOrigin.getRelativeCenterPoint for origin left/top, angle 0
GetRelativeCenterPoint(o) ==
    [x |-> Geometry(o).left + Geometry(o).width \div 2,
     y |-> Geometry(o).top + Geometry(o).height \div 2]

\* ObjectGeometry.calcACoords: the corners around the center, viewport-free
CalcACoords(o) ==
    LET c == GetRelativeCenterPoint(o)
        w == Geometry(o).width \div 2
        h == Geometry(o).height \div 2
    IN [l |-> c.x - w, t |-> c.y - h, r |-> c.x + w, b |-> c.y + h]

\* transformPoint by a translation matrix, applied to the four corners
TransformRect(rect, v) ==
    [l |-> rect.l + v[1], t |-> rect.t + v[2], r |-> rect.r + v[1], b |-> rect.b + v[2]]

\* ObjectGeometry.calcLineCoords with padding 0: aCoords through the viewport
CalcLineCoords(o, v) == TransformRect(CalcACoords(o), v)

\* The four coordinate sets getCoords can return for a scene object ...
ObjectCoords(o) ==
    [acalc |-> CalcACoords(o), lcalc |-> CalcLineCoords(o, vpt),
     astored |-> aCoords[o], lstored |-> lineCoords[o]]

\* ... and for the eraser path after path.setCoords(): the path is on no
\* canvas, so getViewportTransform() is the identity.
PathCoords(rect) ==
    [acalc |-> rect, lcalc |-> rect, astored |-> rect, lstored |-> rect]

\* ObjectGeometry._getCoords / getCoords (no group: top-level objects only)
GetCoords(x, absolute, calculate) ==
    IF calculate
    THEN (IF absolute THEN x.acalc ELSE x.lcalc)
    ELSE (IF absolute THEN x.astored ELSE x.lstored)

Corners(rect) ==
    {<<rect.l, rect.t>>, <<rect.r, rect.t>>, <<rect.r, rect.b>>, <<rect.l, rect.b>>}

\* Two closed rectangles share a point
RectsOverlap(p, q) == p.l <= q.r /\ q.l <= p.r /\ p.t <= q.b /\ q.t <= p.b

StrictlyInside(p, q) == q.l < p.l /\ p.r < q.r /\ q.t < p.t /\ p.b < q.b

\* Intersection.isPointInPolygon, for a rectangle
IsPointInPolygon(pt, rect) ==
    rect.l <= pt[1] /\ pt[1] <= rect.r /\ rect.t <= pt[2] /\ pt[2] <= rect.b

\* Intersection.intersectPolygonPolygon(...).status, for two rectangles: the
\* outlines are the same, or cross or touch, or do neither.
IntersectPolygonPolygon(p, q) ==
    IF p = q THEN "Coincident"
    ELSE IF RectsOverlap(p, q) /\ ~StrictlyInside(p, q) /\ ~StrictlyInside(q, p)
         THEN "Intersection"
         ELSE "NoIntersection"

\* ObjectGeometry.containsPoint
ContainsPoint(x, pt, absolute, calculate) ==
    IsPointInPolygon(pt, GetCoords(x, absolute, calculate))

\* ObjectGeometry.isContainedWithinObject: `calculate && other.getCoords(absolute, true)`
\* computes other's corners and drops them; other.containsPoint(point) is then
\* called with its defaults (absolute = false, calculate = false).
IsContainedWithinObject(this, other, absolute, calculate) ==
    \A pt \in Corners(GetCoords(this, absolute, calculate)) :
        ContainsPoint(other, pt, FALSE, FALSE)

\* A faulty variant of IntersectsWithObject: the outlines only
IntersectsWithObjectOutlines(this, other, absolute, calculate) ==
    LET status == IntersectPolygonPolygon(GetCoords(this, absolute, calculate),
                                          GetCoords(other, absolute, calculate))
    IN status = "Intersection" \/ status = "Coincident"

\* ObjectGeometry.intersectsWithObject
IntersectsWithObject(this, other, absolute, calculate) ==
    LET status == IntersectPolygonPolygon(GetCoords(this, absolute, calculate),
                                          GetCoords(other, absolute, calculate))
    IN \/ status = "Intersection"
       \/ status = "Coincident"
       \/ IsContainedWithinObject(other, this, absolute, calculate)
       \/ IsContainedWithinObject(this, other, absolute, calculate)

\* The strokes a gesture can end with: the bounding rectangle of the created
\* path, or "degenerate" (fewer than two points, or an empty SVG path).
PathRects ==
    { [l |-> 1, t |-> 1, r |-> 3, b |-> 3],     \* inside a
      [l |-> 3, t |-> 1, r |-> 7, b |-> 3],     \* across a and g
      [l |-> 7, t |-> 1, r |-> 9, b |-> 3] }    \* inside g

Viewports == {<<0, 0>>, <<6, 0>>}

\* ------------------------------------------------------------------ fan-out
\* One clone promise of a gesture: kind "attach" is the path.clone() of a leaf
\* target, kind "clip" the clonePathWithClipPath of a clipped deep collection.
\* clips lists the collections whose clip path the propagated path carries,
\* prop the canvas property when the target is a drawable, ctx whether the
\* gesture's context was passed along.
Task(g, obj, kind, clips, prop, ctx) ==
    [g |-> g, obj |-> obj, kind |-> kind, st |-> "pending",
     clips |-> clips, prop |-> prop, ctx |-> ctx]

\* Faulty variants of DeepTargets: no erasable filter; the grandchildren listed too
DeepTargetsUnfiltered(obj) == Objects(obj)
DeepTargetsWithGrandchildren(obj) ==
    SelectSeq(Objects(obj) \o Flatten([i \in 1..Len(Objects(obj)) |-> Objects(Objects(obj)[i])]),
              LAMBDA o : Truthy(erasable[o]))

\* `obj._objects.filter(_obj => _obj.erasable)`
DeepTargets(obj) == SelectSeq(Objects(obj), LAMBDA o : Truthy(erasable[o]))

\* A faulty variant of IsDeepCollection: 'deep' is taken for plain erasable
IsDeepCollectionNever(obj) == HasForEachObject(obj) /\ erasable[obj] = "never"

\* `obj.forEachObject && obj.erasable === 'deep'`
IsDeepCollection(obj) == HasForEachObject(obj) /\ erasable[obj] = "deep"

\* EraserBrush._addPathToObjectEraser, up to its first suspension: the clone
\* promises it creates, in order. A deep collection without clip path hands
\* the path on to its erasable children at once.
RECURSIVE AddPathToObjectEraser(_, _, _, _, _)
AddPathToObjectEraser(obj, g, clips, prop, ctx) ==
    IF IsDeepCollection(obj)
    THEN LET targets == DeepTargets(obj)
         IN IF Len(targets) > 0 /\ obj \in clipPath
            THEN <<Task(g, obj, "clip", clips, prop, ctx)>>
            ELSE Flatten([i \in 1..Len(targets) |->
                     AddPathToObjectEraser(targets[i], g, clips, prop, ctx)])
    ELSE <<Task(g, obj, "attach", clips, prop, ctx)>>

\* A faulty variant of PrepareEraser: a new eraser for every leaf target
PrepareEraserAnew(new) ==
    [o \in Objs |->
        IF \E i \in 1..Len(new) : new[i].kind = "attach" /\ new[i].obj = o
        THEN [has |-> TRUE, paths |-> <<>>]
        ELSE eraser[o]]

\* A faulty variant of PrepareEraser: a clipped collection gets an eraser too
PrepareEraserOfCollections(new) ==
    [o \in Objs |->
        IF \E i \in 1..Len(new) : new[i].obj = o
        THEN [eraser[o] EXCEPT !.has = TRUE]
        ELSE eraser[o]]

\* `if (!eraser) { eraser = new fabric.Eraser(); obj.eraser = eraser; }` for
\* every leaf target among the new promises
PrepareEraser(new) ==
    [o \in Objs |->
        IF \E i \in 1..Len(new) : new[i].kind = "attach" /\ new[i].obj = o
        THEN [eraser[o] EXCEPT !.has = TRUE]
        ELSE eraser[o]]

\* EraserBrush.applyEraserToCanvas: the promises for the erasable drawables
ApplyEraserToCanvas(g) ==
    Flatten([i \in 1..Len(Props) |->
        LET d == drawable[Props[i]]
        IN IF d # "none" /\ Truthy(erasable[d])
           THEN AddPathToObjectEraser(d, g, <<>>, Props[i], FALSE)
           ELSE <<>>])

\* The top-level objects _finalizeAndAddPath hands to _addPathToObjectEraser
Handed(rect) ==
    SelectSeq(_objects, LAMBDA o :
        /\ Truthy(erasable[o])
        /\ IntersectsWithObject(ObjectCoords(o), PathCoords(rect), TRUE, TRUE))

\* The promises are kept as a set; n tells apart the promises a gesture
\* creates for the same object (1 for the first).
Copies(ts, t) ==
    Cardinality({u \in ts : u.g = t.g /\ u.obj = t.obj /\ u.kind = t.kind})

RECURSIVE AddTasks(_, _)
AddTasks(ts, new) ==
    IF new = <<>> THEN ts
    ELSE AddTasks(ts \cup {[n |-> Copies(ts, Head(new)) + 1] @@ Head(new)}, Tail(new))

TasksOf(g) == {t \in tasks : t.g = g}

\* Faulty variants of AllFulfilled: Promise.race, Promise.allSettled
AnyFulfilled(g) == \E t \in TasksOf(g) : t.st = "done"
AllSettled(g) == \A t \in TasksOf(g) : t.st # "pending"

\* Promise.all(tasks) of gesture g is fulfilled / rejected
AllFulfilled(g) == \A t \in TasksOf(g) : t.st = "done"
Rejected(g) == \E t \in TasksOf(g) : t.st = "failed"

RECURSIVE Sum(_)
Sum(ns) == IF ns = <<>> THEN 0 ELSE Head(ns) + Sum(Tail(ns))

\* The number of clone promises the fan-out below obj comes to in all
RECURSIVE FanOutSize(_)
FanOutSize(obj) ==
    IF IsDeepCollection(obj)
    THEN LET targets == DeepTargets(obj)
         IN (IF Len(targets) > 0 /\ obj \in clipPath THEN 1 ELSE 0)
            + Sum([i \in 1..Len(targets) |-> FanOutSize(targets[i])])
    ELSE 1

NoDrawables == [p \in Range(Props) |-> "none"]

\* A multiset of objects (context.targets, context.subTargets) or of gesture
\* ids (an eraser's paths, an object's 'erasing:end' events): the order of
\* the entries is not kept.
EmptyBag == <<>>
BagAdd(bag, x) ==
    IF x \in DOMAIN bag THEN [bag EXCEPT ![x] = @ + 1] ELSE (x :> 1) @@ bag
BagCount(bag, x) == IF x \in DOMAIN bag THEN bag[x] ELSE 0

\* A faulty variant of NewGesture: nothing is fired at the start of the finalization
NewGestureSilent(path, status, events, handed) ==
    [path |-> path, status |-> status, events |-> <<>>, handed |-> handed,
     targets |-> <<>>, subTargets |-> <<>>, drawables |-> [p \in Range(Props) |-> "none"]]

\* const context = { targets: [], subTargets: [], drawables: {} }
NewGesture(path, status, events, handed) ==
    [path |-> path, status |-> status, events |-> events, handed |-> handed,
     targets |-> EmptyBag, subTargets |-> EmptyBag, drawables |-> NoDrawables]

\* EraserBrush._finalizeAndAddPath, called on pointer-up
FinalizeAndAddPath ==
    /\ Len(gest) < MaxGestures
    /\ isErasing' = FALSE
    /\ LET g == Len(gest) + 1
       IN \/ \* pathData is null or the empty SVG path
             /\ gest' = Append(gest, NewGesture(<<>>, "degenerate", <<"erasing:end">>, <<>>))
             /\ UNCHANGED <<eraser, tasks>>
          \/ \E rect \in PathRects :
                LET handed == Handed(rect)
                    new == Flatten([i \in 1..Len(handed) |->
                               AddPathToObjectEraser(handed[i], g, <<>>, "none", TRUE)])
                           \o ApplyEraserToCanvas(g)
                IN /\ Cardinality(tasks) + Len(ApplyEraserToCanvas(g))
                        + Sum([i \in 1..Len(handed) |-> FanOutSize(handed[i])]) <= MaxTasks
                   /\ gest' = Append(gest, NewGesture(<<rect>>, "pending",
                                                      <<"before:path:created">>, handed))
                   /\ tasks' = AddTasks(tasks, new)
                   /\ eraser' = PrepareEraser(new)
    /\ UNCHANGED <<sceneVars, patternVars, pencilVars, objectVars, call, dirty, objFired>>

\* A faulty variant of PushToContext: every object is pushed to context.targets
PushToTargets(c, t, o) ==
    IF ~t.ctx THEN c ELSE [c EXCEPT !.targets = BagAdd(@, o)]

\* `if (context) (obj.group ? context.subTargets : context.targets).push(obj)`
PushToContext(c, t, o) ==
    IF ~t.ctx THEN c
    ELSE IF Group(o) # "none"
         THEN [c EXCEPT !.subTargets = BagAdd(@, o)]
         ELSE [c EXCEPT !.targets = BagAdd(@, o)]

\* applyEraserToCanvas' `.then`: `context.drawables[prop] = drawable`
ThenOfDrawable(c, t, o) ==
    IF t.prop # "none" THEN [c EXCEPT !.drawables[t.prop] = o] ELSE c

\* path.clone() of task t resolves: the path is added to the eraser captured
\* at dispatch, the object is notified and recorded in the gesture's context
CloneResolve(t) ==
    /\ t.kind = "attach" /\ t.st = "pending"
    /\ LET o == t.obj
       IN /\ tasks' = (tasks \ {t}) \cup {[t EXCEPT !.st = "done"]}
          /\ eraser' = [eraser EXCEPT ![o].paths = BagAdd(@, t.g)]
          /\ dirty' = dirty \cup {o}
          /\ objFired' = [objFired EXCEPT ![o] = BagAdd(@, t.g)]
          /\ gest' = [gest EXCEPT ![t.g] = ThenOfDrawable(PushToContext(@, t, o), t, o)]
    /\ UNCHANGED <<sceneVars, patternVars, pencilVars, objectVars, call, isErasing>>

\* clonePathWithClipPath of task t resolves: the path clone now carries the
\* collection's clip path and goes to the collection's erasable children
ClipResolve(t) ==
    /\ t.kind = "clip" /\ t.st = "pending"
    /\ LET targets == DeepTargets(t.obj)
           new == Flatten([k \in 1..Len(targets) |->
                      AddPathToObjectEraser(targets[k], t.g, Append(t.clips, t.obj),
                                            t.prop, t.ctx)])
       IN /\ tasks' = AddTasks((tasks \ {t}) \cup {[t EXCEPT !.st = "done"]}, new)
          /\ eraser' = PrepareEraser(new)
    /\ UNCHANGED <<sceneVars, patternVars, pencilVars, objectVars, call, dirty, isErasing, gest, objFired>>

NumFailed == Cardinality({t \in tasks : t.st = "failed"})

\* a clone promise rejects
CloneReject(t) ==
    /\ t.st = "pending"
    /\ NumFailed < MaxFail
    /\ tasks' = (tasks \ {t}) \cup {[t EXCEPT !.st = "failed"]}
    /\ UNCHANGED <<sceneVars, patternVars, pencilVars, objectVars, call, eraser, dirty, isErasing, gest, objFired>>

\* The callback of Promise.all(tasks).then(...) in _finalizeAndAddPath
JoinThen(g) ==
    /\ gest[g].status = "pending"
    /\ AllFulfilled(g)
    /\ gest' = [gest EXCEPT ![g].status = "ended",
                            ![g].events = @ \o <<"erasing:end", "path:created">>]
    /\ UNCHANGED <<sceneVars, patternVars, pencilVars, objectVars, call, eraser, dirty, isErasing, tasks, objFired>>

\* ------------------------------------------------------------------ pattern
\* `obj.eraser = undefined`
NoEraser == [has |-> FALSE, paths |-> EmptyBag]

\* `const restorationContext = { visibility: [], eraser: [], collection: [] }`
NoRestoration == [visibility |-> <<>>, eraser |-> <<>>, collection |-> <<>>]

\* EraserBrush._isErasable
IsErasable(o) == erasable[o] # "false"

\* A faulty variant of TraverseObject: erasable objects are hidden in both modes
TraverseObjectHides(collection, obj, s) ==
    LET s1 ==
          IF Truthy(erasable[obj]) /\ s.visible[obj]
          THEN [s EXCEPT !.visible[obj] = FALSE,
                         !.ctx.visibility = Append(@, obj)]
          ELSE s
    IN IF s1 # s /\ collection # "canvas"
       THEN [s1 EXCEPT !.dirty = @ \cup {collection},
                       !.ctx.collection = Append(@, collection)]
       ELSE s1

\* One object of the forEach of _prepareCollectionTraversal, after the
\* recursive call if there is one; s = [visible, eraser, dirty, ctx]
TraverseObject(collection, obj, s) ==
    LET s1 ==
          IF ~inverted /\ Truthy(erasable[obj]) /\ s.visible[obj]
          THEN [s EXCEPT !.visible[obj] = FALSE,
                         !.ctx.visibility = Append(@, obj)]
          ELSE IF inverted /\ Truthy(erasable[obj]) /\ s.eraser[obj].has /\ s.visible[obj]
          THEN [s EXCEPT !.eraser[obj] = NoEraser,
                         !.dirty = @ \cup {obj},
                         !.ctx.eraser = Append(@, [obj |-> obj, eraser |-> s.eraser[obj]])]
          ELSE s
    IN IF s1 # s /\ collection # "canvas"
       THEN [s1 EXCEPT !.dirty = @ \cup {collection},
                       !.ctx.collection = Append(@, collection)]
       ELSE s1

\* EraserBrush._prepareCollectionTraversal
RECURSIVE PrepareCollectionTraversal(_, _, _)
PrepareCollectionTraversal(collection, objects, s) ==
    IF objects = <<>> THEN s
    ELSE LET obj == Head(objects)
             s1 == IF IsDeepCollection(obj)
                   THEN PrepareCollectionTraversal(obj, Objects(obj), s)
                   ELSE TraverseObject(collection, obj, s)
         IN PrepareCollectionTraversal(collection, Tail(objects), s1)

\* A faulty variant of RestoreVisibility: every object is made visible
RestoreVisibilityAll(vis, ctx) == [o \in Objs |-> TRUE]

\* `restorationContext.visibility.forEach(obj => obj.visible = true)`
RestoreVisibility(vis, ctx) ==
    [o \in Objs |-> IF o \in Range(ctx.visibility) THEN TRUE ELSE vis[o]]

\* `restorationContext.eraser.forEach(...)`: obj.eraser = eraser
RECURSIVE RestoreEraser(_, _)
RestoreEraser(er, entries) ==
    IF entries = <<>> THEN er
    ELSE RestoreEraser([er EXCEPT ![Head(entries).obj] = Head(entries).eraser],
                       Tail(entries))

\* Whether preparePattern renders prop's layer in normal mode
RendersLayer(image, color) == (image # "none" /\ ~IsErasable(image)) \/ color

\* The part of preparePattern before the render of a drawable's layer
\* (backgroundImage: _renderBackground, overlayImage: __renderOverlay): an
\* erasable drawable is taken off the canvas in normal mode, the drawable's
\* eraser is taken off the drawable in inverted mode.
\* s = [drawable, eraser, dirty, local], local being `var eraser`
DetachDrawable(prop, image, color, s) ==
    IF ~inverted /\ RendersLayer(image, color)
    THEN IF image # "none" /\ IsErasable(image)
         THEN [s EXCEPT !.drawable[prop] = "none"]
         ELSE s
    ELSE IF inverted
    THEN LET er == IF image # "none" THEN s.eraser[image] ELSE NoEraser
         IN IF er.has
            THEN [s EXCEPT !.local = er,
                           !.eraser[image] = NoEraser,
                           !.dirty = @ \cup {image}]
            ELSE [s EXCEPT !.local = er]
    ELSE s

\* The part after the render
AttachDrawable(prop, image, color, s) ==
    IF ~inverted /\ RendersLayer(image, color)
    THEN IF image # "none" /\ IsErasable(image)
         THEN [s EXCEPT !.drawable[prop] = image]
         ELSE s
    ELSE IF inverted /\ s.local.has
    THEN [s EXCEPT !.eraser[image] = s.local,
                   !.dirty = @ \cup {image}]
    ELSE s

\* The state the two parts work on
DrawableState == [drawable |-> drawable, eraser |-> eraser, dirty |-> dirty,
                  local |-> pattern.eraser]

patternFrame == <<erasable, clipPath, _objects, vpt, aCoords, lineCoords, isErasing, gest,
                  tasks, objFired, inverted, backgroundColor, overlayColor, pencilVars,
                  objectVars, call>>

\* preparePattern is called: the locals are read, the background drawable or
\* its eraser is detached
PreparePattern ==
    /\ pattern.pc \in {"idle", "done"}
    /\ LET s == DetachDrawable("backgroundImage", drawable["backgroundImage"],
                               backgroundColor,
                               [DrawableState EXCEPT !.local = NoEraser])
       IN /\ drawable' = s.drawable
          /\ eraser' = s.eraser
          /\ dirty' = s.dirty
          /\ pattern' = [pc |-> "background",
                         pre |-> [visible |-> visible, eraser |-> eraser,
                                  drawable |-> drawable],
                         backgroundImage |-> drawable["backgroundImage"],
                         overlayImage |-> drawable["overlayImage"],
                         eraser |-> s.local,
                         restorationContext |-> NoRestoration]
    /\ UNCHANGED <<patternFrame, visible>>

\* canvas._renderBackground returned: the background is as before
RenderBackground ==
    /\ pattern.pc = "background"
    /\ LET s == AttachDrawable("backgroundImage", pattern.backgroundImage,
                               backgroundColor, DrawableState)
       IN /\ drawable' = s.drawable
          /\ eraser' = s.eraser
          /\ dirty' = s.dirty
    /\ pattern' = [pattern EXCEPT !.pc = "traverse"]
    /\ UNCHANGED <<patternFrame, visible>>

\* this._prepareCollectionTraversal(this.canvas, objects, ...)
HideObjects ==
    /\ pattern.pc = "traverse"
    /\ LET s == PrepareCollectionTraversal("canvas", _objects,
                    [visible |-> visible, eraser |-> eraser, dirty |-> dirty,
                     ctx |-> NoRestoration])
       IN /\ visible' = s.visible
          /\ eraser' = s.eraser
          /\ dirty' = s.dirty
          /\ pattern' = [pattern EXCEPT !.pc = "objects", !.restorationContext = s.ctx]
    /\ UNCHANGED <<patternFrame, drawable>>

\* canvas._renderObjects returned: the restoration context is played back
RenderObjects ==
    /\ pattern.pc = "objects"
    /\ LET ctx == pattern.restorationContext
       IN /\ visible' = RestoreVisibility(visible, ctx)
          /\ eraser' = RestoreEraser(eraser, ctx.eraser)
          /\ dirty' = dirty \cup {e.obj : e \in Range(ctx.eraser)} \cup Range(ctx.collection)
    /\ pattern' = [pattern EXCEPT !.pc = "overlay"]
    /\ UNCHANGED <<patternFrame, drawable>>

\* the overlay drawable or its eraser is detached
PrepareOverlay ==
    /\ pattern.pc = "overlay"
    /\ LET s == DetachDrawable("overlayImage", pattern.overlayImage, overlayColor,
                               DrawableState)
       IN /\ drawable' = s.drawable
          /\ eraser' = s.eraser
          /\ dirty' = s.dirty
          /\ pattern' = [pattern EXCEPT !.pc = "renderOverlay", !.eraser = s.local]
    /\ UNCHANGED <<patternFrame, visible>>

\* __renderOverlay returned: the overlay is as before, preparePattern returns
RenderOverlay ==
    /\ pattern.pc = "renderOverlay"
    /\ LET s == AttachDrawable("overlayImage", pattern.overlayImage, overlayColor,
                               DrawableState)
       IN /\ drawable' = s.drawable
          /\ eraser' = s.eraser
          /\ dirty' = s.dirty
    /\ pattern' = [pattern EXCEPT !.pc = "done"]
    /\ UNCHANGED <<patternFrame, visible>>

\* ------------------------------------------------------------------ pencil
\* The pointer positions of the events
Pointers == {<<0, 0>>, <<1, 0>>}

\* `this.width / 1000`, the unit of the coordinates
Correction == 1

\* PencilBrush.decimate and canvas.getZoom(), in the unit of the coordinates
Decimate == 2
Zoom == 1

\* The Point of an event at position p, captured during session n
NewPoint(p, n) == [x |-> p[1], y |-> p[2], s |-> n]

\* Point.eq
Eq(p, q) == p.x = q.x /\ p.y = q.y

Last(pts) == pts[Len(pts)]

\* The brush fields the stroke session works on
Brush == [points |-> _points, hasStraightLine |-> _hasStraightLine,
          drawStraightLine |-> drawStraightLine, oldEnd |-> oldEnd]

\* A faulty variant of Reset: the points of the previous session stay
ResetFlagOnly(b) == [b EXCEPT !.hasStraightLine = FALSE]

\* PencilBrush._reset
Reset(b) == [b EXCEPT !.points = <<>>, !.hasStraightLine = FALSE]

\* A faulty variant of IsDuplicate: the test starts with the third point
IsDuplicateAfterTwo(pts, point) == Len(pts) > 2 /\ Eq(point, Last(pts))

\* The early return of _addPoint
IsDuplicate(pts, point) == Len(pts) > 1 /\ Eq(point, Last(pts))

\* A faulty variant of AddPoint: the straight-line point is appended
AddPointNoPop(b, point) ==
    IF IsDuplicate(b.points, point)
    THEN [b |-> b, added |-> FALSE]
    ELSE [b |-> [b EXCEPT !.hasStraightLine = @ \/ (b.drawStraightLine /\ Len(b.points) > 1),
                          !.points = Append(@, point)],
          added |-> TRUE]

\* PencilBrush._addPoint; added is its return value
AddPoint(b, point) ==
    IF IsDuplicate(b.points, point)
    THEN [b |-> b, added |-> FALSE]
    ELSE IF b.drawStraightLine /\ Len(b.points) > 1
    THEN [b |-> [b EXCEPT !.hasStraightLine = TRUE,
                          !.points = Append(SubSeq(@, 1, Len(@) - 1), point)],
          added |-> TRUE]
    ELSE [b |-> [b EXCEPT !.points = Append(@, point)], added |-> TRUE]

\* PencilBrush._prepareForDrawing
PrepareForDrawing(b, point) == AddPoint(Reset(b), point).b

\* What PencilBrush._render does to the points: two equal points are set
\* apart; same = the two entries are one Point object
Render(pts, same) ==
    IF Len(pts) = 2 /\ Eq(pts[1], pts[2])
    THEN IF same
         THEN [i \in 1..2 |-> [pts[i] EXCEPT !.x = (@ - Correction) + Correction]]
         ELSE <<[pts[1] EXCEPT !.x = @ - Correction],
                [pts[2] EXCEPT !.x = @ + Correction]>>
    ELSE pts

\* PencilBrush.createPath: the k-th Path object the handler creates
CreatePath(pathData, k) == [data |-> pathData, created |-> k]

\* no Path object
NoPath == [data |-> <<>>, created |-> 0]

\* A call on the canvas, or an event fired on it, with the path it carries
CanvasCall(op, path) == [op |-> op, path |-> path]

\* A faulty variant of NeedsFullRender: only what the base brush asks for
NeedsFullRenderOfBase(b) == translucent

\* PencilBrush.needsFullRender
NeedsFullRender(b) == translucent \/ b.hasStraightLine

\* onMouseMove, the full render: the top context is cleared and _render called
FullRender == <<CanvasCall("clearContext", NoPath), CanvasCall("_render", NoPath)>>

\* onMouseMove, the curve update: one segment, begun at the cursor if there is one
SegmentFrom(cursor) ==
    (IF cursor # <<>> THEN <<CanvasCall("moveTo", NoPath)>> ELSE <<>>)
    \o <<CanvasCall("drawSegment", NoPath), CanvasCall("stroke", NoPath)>>

pencilFrame == <<sceneVars, eraserVars, patternVars, translucent, limitedToCanvasSize,
                 objectVars, call>>

SetBrush(b) ==
    /\ _points' = b.points
    /\ _hasStraightLine' = b.hasStraightLine
    /\ drawStraightLine' = b.drawStraightLine
    /\ oldEnd' = b.oldEnd

\* PencilBrush.onMouseDown(pointer, {e}); main = canvas._isMainEvent(e),
\* key = e[this.straightLineKey]
OnMouseDown(pointer, main, key) ==
    IF ~main THEN UNCHANGED vars
    ELSE /\ session < MaxSessions
         /\ session' = session + 1
         /\ LET point == NewPoint(pointer, session + 1)
                b1 == PrepareForDrawing([Brush EXCEPT !.drawStraightLine = key], point)
                b2 == AddPoint(b1, point).b
            IN SetBrush([b2 EXCEPT !.points = Render(@, TRUE)])
         /\ pencilLog' = <<CanvasCall("moveTo", NoPath), CanvasCall("_render", NoPath)>>
         /\ UNCHANGED pencilFrame

\* PencilBrush.onMouseMove(pointer, {e}); outside = _isOutSideCanvas(pointer)
OnMouseMove(pointer, main, key, outside) ==
    IF ~main THEN UNCHANGED vars
    ELSE /\ LET b0 == [Brush EXCEPT !.drawStraightLine = key]
                r == AddPoint(b0, NewPoint(pointer, session))
                n == Len(r.b.points)
            IN IF limitedToCanvasSize /\ outside
               THEN SetBrush(b0) /\ pencilLog' = <<>>
               ELSE /\ n <= MaxPoints
                    /\ IF r.added /\ n > 1
                       THEN IF NeedsFullRender(r.b)
                            THEN /\ SetBrush([r.b EXCEPT !.points = Render(@, FALSE)])
                                 /\ pencilLog' = FullRender
                            ELSE /\ SetBrush([r.b EXCEPT !.oldEnd =
                                                 <<r.b.points[n - 1], r.b.points[n]>>])
                                 /\ pencilLog' = SegmentFrom(oldEnd)
                       ELSE SetBrush(r.b) /\ pencilLog' = <<>>
         /\ UNCHANGED <<pencilFrame, session>>

\* `cDistance >= adjustedDistance`, adjustedDistance = Math.pow(distance / zoom, 2):
\* Infinity or NaN for zoom = 0, and then the comparison is false
ExceedsDistance(cDistance, distance, zoom) ==
    zoom # 0 /\ cDistance * zoom * zoom >= distance * distance

\* The loop of decimatePoints over points[i .. l - 2] (0-based), l = length - 1
RECURSIVE DecimateFrom(_, _, _, _, _, _)
DecimateFrom(points, i, lastPoint, newPoints, distance, zoom) ==
    IF i >= Len(points) - 1 THEN newPoints
    ELSE LET pt == points[i]
             cDistance == (lastPoint.x - pt.x) * (lastPoint.x - pt.x)
                          + (lastPoint.y - pt.y) * (lastPoint.y - pt.y)
         IN IF ExceedsDistance(cDistance, distance, zoom)
            THEN DecimateFrom(points, i + 1, pt, Append(newPoints, pt), distance, zoom)
            ELSE DecimateFrom(points, i + 1, lastPoint, newPoints, distance, zoom)

\* A faulty variant of DecimatePoints: the last point goes through the test too
DecimatePointsTestsLast(points, distance, zoom) ==
    IF Len(points) <= 2 THEN points
    ELSE DecimateFrom(Append(points, Last(points)), 2, points[1], <<points[1]>>,
                      distance, zoom)

\* PencilBrush.decimatePoints(points, distance), zoom = canvas.getZoom()
DecimatePoints(points, distance, zoom) ==
    IF Len(points) <= 2 THEN points
    ELSE Append(DecimateFrom(points, 2, points[1], <<points[1]>>, distance, zoom),
                Last(points))

\* isEmptySVGPath(convertPointsToSVGPath(points))
IsEmptySVGPath(points) == Len(points) < 2

\* A faulty variant of FinalizePencil: 'path:created' is fired before the path is added
FinalizePencilEarlyEvent(b) ==
    LET pts == IF Decimate # 0 THEN DecimatePoints(b.points, Decimate, Zoom) ELSE b.points
        path == CreatePath(pts, 1)
    IN [b |-> [b EXCEPT !.points = pts],
        log |-> IF IsEmptySVGPath(pts)
                THEN <<CanvasCall("requestRenderAll", NoPath)>>
                ELSE <<CanvasCall("clearContext", NoPath),
                       CanvasCall("before:path:created", path),
                       CanvasCall("path:created", path),
                       CanvasCall("add", path),
                       CanvasCall("requestRenderAll", NoPath)>>]

\* PencilBrush._finalizeAndAddPath: the points, and the calls on the canvas
FinalizePencil(b) ==
    LET pts == IF Decimate # 0 THEN DecimatePoints(b.points, Decimate, Zoom) ELSE b.points
        path == CreatePath(pts, 1)
    IN [b |-> [b EXCEPT !.points = pts],
        log |-> IF IsEmptySVGPath(pts)
                THEN <<CanvasCall("requestRenderAll", NoPath)>>
                ELSE <<CanvasCall("clearContext", NoPath),
                       CanvasCall("before:path:created", path),
                       CanvasCall("add", path),
                       CanvasCall("requestRenderAll", NoPath),
                       CanvasCall("path:created", path)>>]

\* The name, in canvas._objects, of the Path created in session n
PathName(n) == "path" \o ToString(n)

\* A faulty variant of CanvasAdd: the path is put below the objects
CanvasAddBelow(objects, path) == <<path>> \o objects

\* canvas.add(path)
CanvasAdd(objects, path) == Append(objects, path)

\* PencilBrush.onMouseUp({e})
OnMouseUp(main) ==
    IF ~main THEN UNCHANGED vars
    ELSE /\ LET r == FinalizePencil([Brush EXCEPT !.drawStraightLine = FALSE,
                                                  !.oldEnd = <<>>])
            IN /\ SetBrush(r.b)
               /\ pencilLog' = r.log
               /\ IF IsEmptySVGPath(r.b.points)
                  THEN UNCHANGED _objects
                  ELSE /\ Len(_objects) < Len(TopObjects) + MaxSessions
                       /\ _objects' = CanvasAdd(_objects, PathName(session))
         /\ UNCHANGED <<erasable, clipPath, drawable, vpt, aCoords, lineCoords, eraserVars,
                        patternVars, translucent, limitedToCanvasSize, objectVars, call,
                        session>>

\* ------------------------------------------------------------ eraser brush
\* EraserBrush.erasingWidthAliasing
ErasingWidthAliasing == 4

\* BaseBrush.width at the time of an event
Widths == {2, 6}

\* A step of a handler of the eraser brush: a call on the context ctx ("main"
\* = canvas.getContext(), "top" = canvas.contextTop) with the compositing and
\* the line width in force, or the exception that ends the handler
BrushStep(op, ctx, gco, lineWidth) ==
    [op |-> op, ctx |-> ctx, globalCompositeOperation |-> gco, lineWidth |-> lineWidth]

\* A faulty variant of SaveAndTransform: the overlay follows the brush's mode
SaveAndTransformByMode(ctx) ==
    IF ctx = "main" THEN "destination-out"
    ELSE IF inverted THEN "source-over" ELSE "destination-in"

\* EraserBrush._saveAndTransform: the globalCompositeOperation it sets on ctx
SaveAndTransform(ctx) ==
    IF ctx = "main" THEN "destination-out" ELSE "destination-in"

\* `this.callSuper('_render', ctx)`: the stroke between _saveAndTransform(ctx)
\* and ctx.restore()
StrokeOn(ctx, lineWidth) == BrushStep("stroke", ctx, SaveAndTransform(ctx), lineWidth)

\* EraserBrush._render: the calls on the two contexts
EraserRender(width) ==
    (IF width - ErasingWidthAliasing > 0
     THEN <<StrokeOn("main", width - ErasingWidthAliasing)>>
     ELSE <<>>)
    \o <<BrushStep("clearContext", "top", "source-over", width),
         BrushStep("drawImage", "top", "source-over", width),
         StrokeOn("top", width)>>

\* EraserBrush._render: what the one or two runs of PencilBrush._render do
\* to the points
EraserRenderPoints(pts, same, width) ==
    IF width - ErasingWidthAliasing > 0
    THEN Render(Render(pts, same), same)
    ELSE Render(pts, same)

\* EraserBrush.onMouseDown(pointer, options); main = canvas._isMainEvent(e).
\* Neither EraserBrush nor PencilBrush defines _captureDrawingPath: the call
\* after _prepareForDrawing throws a TypeError, and preparePattern, the
\* assignment of _isErasing, 'erasing:start' and _render are not reached
EraserOnMouseDown(pointer, main) ==
    IF ~main THEN UNCHANGED vars
    ELSE /\ session < MaxSessions
         /\ session' = session + 1
         /\ SetBrush(PrepareForDrawing(Brush, NewPoint(pointer, session + 1)))
         /\ pencilLog' = <<BrushStep("moveTo", "top", "source-over", 0),
                           BrushStep("TypeError", "none", "none", 0)>>
         /\ UNCHANGED pencilFrame

\* PencilBrush.onMouseMove on the eraser brush: needsFullRender() is true
\* and _render is EraserBrush._render
EraserOnMouseMove(pointer, main, key, outside, width) ==
    IF ~main THEN UNCHANGED vars
    ELSE /\ LET b0 == [Brush EXCEPT !.drawStraightLine = key]
                r == AddPoint(b0, NewPoint(pointer, session))
                n == Len(r.b.points)
            IN IF limitedToCanvasSize /\ outside
               THEN SetBrush(b0) /\ pencilLog' = <<>>
               ELSE /\ n <= MaxPoints
                    /\ IF r.added /\ n > 1
                       THEN /\ SetBrush([r.b EXCEPT
                                           !.points = EraserRenderPoints(@, FALSE, width)])
                            /\ pencilLog' = <<BrushStep("clearContext", "top", "source-over",
                                                        width)>>
                                            \o EraserRender(width)
                       ELSE SetBrush(r.b) /\ pencilLog' = <<>>
         /\ UNCHANGED <<pencilFrame, session>>

\* ------------------------------------------------------------------ numbers
\* The numbers of the matrix utilities are fractions <<n, d>> in lowest terms
\* with d >= 0; d = 0 stands for what a division by zero gives:
\* <<1, 0>> = Infinity, <<-1, 0>> = -Infinity, <<0, 0>> = NaN.
Abs(n) == IF n < 0 THEN -n ELSE n

Sign(n) == IF n < 0 THEN -1 ELSE IF n > 0 THEN 1 ELSE 0

RECURSIVE GCD(_, _)
GCD(a, b) == IF b = 0 THEN a ELSE GCD(b, a % b)

Rat(n, d) ==
    IF d = 0 THEN <<Sign(n), 0>>
    ELSE LET g == GCD(Abs(n), Abs(d))
         IN <<(Sign(d) * n) \div g, Abs(d) \div g>>

Num(i) == <<i, 1>>

\* Number.isFinite(p): neither an infinity nor NaN
IsFinite(p) == p[2] # 0

\* p + q
Plus(p, q) ==
    IF p[2] = 0 /\ q[2] = 0
    THEN (IF p = q THEN p ELSE <<0, 0>>)
    ELSE Rat(p[1] * q[2] + q[1] * p[2], p[2] * q[2])

\* -p
Neg(p) == <<-p[1], p[2]>>

\* p - q
Minus(p, q) == Plus(p, Neg(q))

\* p * q
Times(p, q) == Rat(p[1] * q[1], p[2] * q[2])

\* p / q
Over(p, q) == Rat(p[1] * q[2], p[2] * q[1])

\* p < q, for finite p and q
Less(p, q) == p[1] * q[2] < q[1] * p[2]

\* cos and sin of an angle in degrees that is a multiple of 90
Mod360(angle) == ((angle % 360) + 360) % 360

Cos(angle) ==
    CASE Mod360(angle) = 0 -> Num(1)
      [] Mod360(angle) = 180 -> Num(-1)
      [] OTHER -> Num(0)

Sin(angle) ==
    CASE Mod360(angle) = 90 -> Num(1)
      [] Mod360(angle) = 270 -> Num(-1)
      [] OTHER -> Num(0)

\* Math.tan of an angle in degrees that is a multiple of 45 and not of 90
Tan(angle) ==
    CASE Mod360(angle) \in {0, 180} -> Num(0)
      [] Mod360(angle) \in {45, 225} -> Num(1)
      [] OTHER -> Num(-1)

\* Math.sqrt of a fraction that is a square
IntSqrt(n) == CHOOSE r \in 0..n : r * r = n

Sqrt(p) == <<IntSqrt(p[1]), IntSqrt(p[2])>>

\* Math.atan2(y, x) in degrees, for a direction that is a multiple of 45,
\* in (-180, 180]; atan2(0, 0) = 0
Atan2(y, x) ==
    LET sy == Sign(y[1])
        sx == Sign(x[1])
    IN CASE sy = 0 -> (IF sx < 0 THEN 180 ELSE 0)
         [] sx = 0 -> 90 * sy
         [] sx > 0 -> 45 * sy
         [] OTHER -> 135 * sy

\* ------------------------------------------------------------------ matrix
\* A TMat2D [a, b, c, d, e, f] is a sequence of six numbers
Mat(a, b, c, d, e, f) == <<Num(a), Num(b), Num(c), Num(d), Num(e), Num(f)>>

iMatrix == Mat(1, 0, 0, 1, 0, 0)

\* undefined, null or false in a list of matrices
Falsy == <<>>

\* Point.transform(t, ignoreOffset)
TransformPoint(pt, t, ignoreOffset) ==
    LET x == Plus(Times(t[1], pt.x), Times(t[3], pt.y))
        y == Plus(Times(t[2], pt.x), Times(t[4], pt.y))
    IN IF ignoreOffset THEN [x |-> x, y |-> y]
       ELSE [x |-> Plus(x, t[5]), y |-> Plus(y, t[6])]

\* A faulty variant of InvertTransform: the offset is negated, not transformed
InvertTransformPlainOffset(t) ==
    LET a == Over(Num(1), Minus(Times(t[1], t[4]), Times(t[2], t[3])))
    IN <<Times(a, t[4]), Neg(Times(a, t[2])), Neg(Times(a, t[3])), Times(a, t[1]),
         Neg(t[5]), Neg(t[6])>>

\* A faulty variant of InvertTransform: a matrix with no inverse gives the
\* identity matrix
InvertTransformOrIdentity(t) ==
    IF Minus(Times(t[1], t[4]), Times(t[2], t[3])) = Num(0) THEN iMatrix
    ELSE LET a == Over(Num(1), Minus(Times(t[1], t[4]), Times(t[2], t[3])))
             r == <<Times(a, t[4]), Neg(Times(a, t[2])), Neg(Times(a, t[3])),
                    Times(a, t[1]), Num(0), Num(0)>>
             o == TransformPoint([x |-> t[5], y |-> t[6]], r, TRUE)
         IN [r EXCEPT ![5] = Neg(o.x), ![6] = Neg(o.y)]

\* invertTransform
InvertTransform(t) ==
    LET a == Over(Num(1), Minus(Times(t[1], t[4]), Times(t[2], t[3])))
        r == <<Times(a, t[4]), Neg(Times(a, t[2])), Neg(Times(a, t[3])), Times(a, t[1]),
               Num(0), Num(0)>>
        o == TransformPoint([x |-> t[5], y |-> t[6]], r, TRUE)
    IN [r EXCEPT ![5] = Neg(o.x), ![6] = Neg(o.y)]

\* multiplyTransformMatrices
MultiplyTransformMatrices(a, b, is2x2) ==
    <<Plus(Times(a[1], b[1]), Times(a[3], b[2])),
      Plus(Times(a[2], b[1]), Times(a[4], b[2])),
      Plus(Times(a[1], b[3]), Times(a[3], b[4])),
      Plus(Times(a[2], b[3]), Times(a[4], b[4])),
      IF is2x2 THEN Num(0)
      ELSE Plus(Plus(Times(a[1], b[5]), Times(a[3], b[6])), a[5]),
      IF is2x2 THEN Num(0)
      ELSE Plus(Plus(Times(a[2], b[5]), Times(a[4], b[6])), a[6])>>

\* A faulty variant of MultiplyTransformMatrixArray: a left-to-right fold
\* that multiplies from the left
RECURSIVE MultiplyTransformMatrixArrayReversed(_, _)
MultiplyTransformMatrixArrayReversed(matrices, is2x2) ==
    IF matrices = <<>> THEN iMatrix
    ELSE LET product == MultiplyTransformMatrixArrayReversed(Tail(matrices), is2x2)
             curr == Head(matrices)
         IN IF curr # Falsy THEN MultiplyTransformMatrices(product, curr, is2x2)
            ELSE product

\* multiplyTransformMatrixArray: reduceRight from iMatrix, falsy entries skipped
RECURSIVE MultiplyTransformMatrixArray(_, _)
MultiplyTransformMatrixArray(matrices, is2x2) ==
    IF matrices = <<>> THEN iMatrix
    ELSE LET product == MultiplyTransformMatrixArray(Tail(matrices), is2x2)
             curr == Head(matrices)
         IN IF curr # Falsy THEN MultiplyTransformMatrices(curr, product, is2x2)
            ELSE product

\* createTranslateMatrix
CreateTranslateMatrix(x, y) == <<Num(1), Num(0), Num(0), Num(1), x, y>>

\* createRotateMatrix({angle}, {x, y}); `x ? ... : 0`
CreateRotateMatrix(angle, pivot) ==
    LET cosValue == Cos(angle)
        sinValue == Sin(angle)
    IN <<cosValue, sinValue, Neg(sinValue), cosValue,
         IF pivot.x # Num(0)
         THEN Minus(pivot.x, Minus(Times(cosValue, pivot.x), Times(sinValue, pivot.y)))
         ELSE Num(0),
         IF pivot.y # Num(0)
         THEN Minus(pivot.y, Plus(Times(sinValue, pivot.x), Times(cosValue, pivot.y)))
         ELSE Num(0)>>

\* the default pivot of createRotateMatrix
NoPivot == [x |-> Num(0), y |-> Num(0)]

\* createScaleMatrix
CreateScaleMatrix(x, y) == <<x, Num(0), Num(0), y, Num(0), Num(0)>>

\* createSkewXMatrix, createSkewYMatrix
CreateSkewXMatrix(skewValue) == <<Num(1), Num(0), Tan(skewValue), Num(1), Num(0), Num(0)>>

CreateSkewYMatrix(skewValue) == <<Num(1), Tan(skewValue), Num(0), Num(1), Num(0), Num(0)>>

\* calcDimensionsMatrix
CalcDimensionsMatrix(o) ==
    MultiplyTransformMatrixArray(
        <<CreateScaleMatrix(IF o.flipX THEN Neg(o.scaleX) ELSE o.scaleX,
                            IF o.flipY THEN Neg(o.scaleY) ELSE o.scaleY),
          IF o.skewX # 0 THEN CreateSkewXMatrix(o.skewX) ELSE Falsy,
          IF o.skewY # 0 THEN CreateSkewYMatrix(o.skewY) ELSE Falsy>>,
        TRUE)

\* composeMatrix
ComposeMatrix(o) ==
    MultiplyTransformMatrixArray(
        <<CreateTranslateMatrix(o.translateX, o.translateY),
          IF o.angle # 0 THEN CreateRotateMatrix(o.angle, NoPivot) ELSE Falsy,
          CalcDimensionsMatrix(o)>>,
        FALSE)

\* A faulty variant of QrDecompose: scaleY is the determinant itself
QrDecomposePlainDeterminant(a) ==
    LET angle == Atan2(a[2], a[1])
        denom == Plus(Times(a[1], a[1]), Times(a[2], a[2]))
        scaleX == Sqrt(denom)
        scaleY == Minus(Times(a[1], a[4]), Times(a[3], a[2]))
        skewX == Atan2(Plus(Times(a[1], a[3]), Times(a[2], a[4])), denom)
    IN [angle |-> angle, scaleX |-> scaleX, scaleY |-> scaleY, skewX |-> skewX,
        skewY |-> 0, translateX |-> a[5], translateY |-> a[6]]

\* qrDecompose; the angles in degrees
QrDecompose(a) ==
    LET angle == Atan2(a[2], a[1])
        denom == Plus(Times(a[1], a[1]), Times(a[2], a[2]))
        scaleX == Sqrt(denom)
        scaleY == Over(Minus(Times(a[1], a[4]), Times(a[3], a[2])), scaleX)
        skewX == Atan2(Plus(Times(a[1], a[3]), Times(a[2], a[4])), denom)
    IN [angle |-> angle, scaleX |-> scaleX, scaleY |-> scaleY, skewX |-> skewX,
        skewY |-> 0, translateX |-> a[5], translateY |-> a[6]]

\* ------------------------------------------------------------------ object geometry
\* ObjectOrigin and ObjectGeometry on the properties o of one object:
\* [left, top] fractions, [width, height, scaleX, scaleY, strokeWidth] integers, [skewX,
\* skewY, angle] degrees, [originX, originY], [strokeUniform, flipX, flipY],
\* [group] the name of the parent or "none"
Half == Rat(1, 2)

MinOf(S) == CHOOSE p \in S : \A q \in S : ~Less(q, p)

MaxOf(S) == CHOOSE p \in S : \A q \in S : ~Less(p, q)

\* resolveOrigin: left, top -> 0; center -> 0.5; right, bottom -> 1
ResolveOrigin(origin) ==
    CASE origin \in {"left", "top"} -> Num(0)
      [] origin = "center" -> Half
      [] OTHER -> Num(1)

\* Point.rotate(angle, origin): the point turned about origin
RotatePoint(pt, angle, origin) ==
    LET dx == Minus(pt.x, origin.x)
        dy == Minus(pt.y, origin.y)
    IN [x |-> Plus(origin.x, Minus(Times(dx, Cos(angle)), Times(dy, Sin(angle)))),
        y |-> Plus(origin.y, Plus(Times(dx, Sin(angle)), Times(dy, Cos(angle))))]

\* the options calcDimensionsMatrix and composeMatrix read, from properties
MatrixOptions(o, center) ==
    [angle |-> o.angle, translateX |-> center.x, translateY |-> center.y,
     scaleX |-> Num(o.scaleX), scaleY |-> Num(o.scaleY),
     skewX |-> o.skewX, skewY |-> o.skewY, flipX |-> o.flipX, flipY |-> o.flipY]

\* makeBoundingBoxFromPoints: the size of the box around a set of points
BoundingSize(points) ==
    [x |-> Minus(MaxOf({p.x : p \in points}), MinOf({p.x : p \in points})),
     y |-> Minus(MaxOf({p.y : p \in points}), MinOf({p.y : p \in points}))]

\* the corners of the rectangle about 0 with half sizes dimX and dimY, through t
TransformedCorners(dimX, dimY, t) ==
    {TransformPoint([x |-> Times(Num(sx), dimX), y |-> Times(Num(sy), dimY)], t, FALSE) :
        sx \in {-1, 1}, sy \in {-1, 1}}

\* sizeAfterTransform: the size of the box around the scaled and skewed rectangle
SizeAfterTransform(width, height, o) ==
    BoundingSize(TransformedCorners(Times(Num(width), Half), Times(Num(height), Half),
                                    CalcDimensionsMatrix(MatrixOptions(o, NoPivot))))

\* Point.scalarAdd
ScalarAdd(pt, scalar) == [x |-> Plus(pt.x, Num(scalar)), y |-> Plus(pt.y, Num(scalar))]

\* _getTransformedDimensions(), without options
GetTransformedDimensions(o) ==
    LET preScalingStrokeValue == IF o.strokeUniform THEN 0 ELSE o.strokeWidth
        postScalingStrokeValue == IF o.strokeUniform THEN o.strokeWidth ELSE 0
        dimX == o.width + preScalingStrokeValue
        dimY == o.height + preScalingStrokeValue
        noSkew == o.skewX = 0 /\ o.skewY = 0
    IN ScalarAdd(IF noSkew
                 THEN [x |-> Times(Num(dimX), Num(o.scaleX)),
                       y |-> Times(Num(dimY), Num(o.scaleY))]
                 ELSE SizeAfterTransform(dimX, dimY, o),
                 postScalingStrokeValue)

\* translateToGivenOrigin, the offsets and the dimensions being known
OffsetPoint(point, offsetX, offsetY, dim) ==
    IF offsetX # Num(0) \/ offsetY # Num(0)
    THEN [x |-> Plus(point.x, Times(offsetX, dim.x)),
          y |-> Plus(point.y, Times(offsetY, dim.y))]
    ELSE point

\* translateToGivenOrigin
TranslateToGivenOrigin(o, point, fromOriginX, fromOriginY, toOriginX, toOriginY) ==
    OffsetPoint(point,
                Minus(ResolveOrigin(toOriginX), ResolveOrigin(fromOriginX)),
                Minus(ResolveOrigin(toOriginY), ResolveOrigin(fromOriginY)),
                GetTransformedDimensions(o))

\* `if (this.angle) return p.rotate(degreesToRadians(this.angle), point)`
RotateIfAngled(p, angle, origin) == IF angle # 0 THEN RotatePoint(p, angle, origin) ELSE p

\* translateToCenterPoint
TranslateToCenterPoint(o, point, originX, originY) ==
    RotateIfAngled(TranslateToGivenOrigin(o, point, originX, originY, "center", "center"),
                   o.angle, point)

\* A faulty variant of TranslateToOriginPoint: the turn is about the new
\* point, which leaves it where it is
TranslateToOriginPointAboutItself(o, center, originX, originY) ==
    TranslateToGivenOrigin(o, center, "center", "center", originX, originY)

\* translateToOriginPoint
TranslateToOriginPoint(o, center, originX, originY) ==
    RotateIfAngled(TranslateToGivenOrigin(o, center, "center", "center", originX, originY),
                   o.angle, center)

\* getRelativeCenterPoint, of any object
RelativeCenterPoint(o) ==
    TranslateToCenterPoint(o, [x |-> o.left, y |-> o.top],
                           o.originX, o.originY)

\* getPointByOrigin
GetPointByOrigin(o, originX, originY) ==
    TranslateToOriginPoint(o, RelativeCenterPoint(o), originX, originY)

\* `this.set({ left: position.x, top: position.y })`
SetPosition(o, position) == [o EXCEPT !.left = position.x, !.top = position.y]

\* setPositionByOrigin: the object afterwards
SetPositionByOrigin(o, pos, originX, originY) ==
    SetPosition(o, TranslateToOriginPoint(o, TranslateToCenterPoint(o, pos, originX, originY),
                                          o.originX, o.originY))

\* createTranslateMatrix(x, y) with the { x, y } of a point
TranslateMatrixTo(pt) == CreateTranslateMatrix(pt.x, pt.y)

\* calcACoords: the corners (-+w, -+h) of the half dimensions through finalMatrix
CornerPoints(finalMatrix, dim) ==
    [tl |-> TransformPoint([x |-> Neg(Times(dim.x, Half)), y |-> Neg(Times(dim.y, Half))],
                           finalMatrix, FALSE),
     tr |-> TransformPoint([x |-> Times(dim.x, Half), y |-> Neg(Times(dim.y, Half))],
                           finalMatrix, FALSE),
     bl |-> TransformPoint([x |-> Neg(Times(dim.x, Half)), y |-> Times(dim.y, Half)],
                           finalMatrix, FALSE),
     br |-> TransformPoint([x |-> Times(dim.x, Half), y |-> Times(dim.y, Half)],
                           finalMatrix, FALSE)]

\* A faulty variant of ACoords: the corners are laid about the point
\* (left, top), whatever the origin
ACoordsAboutOrigin(o) ==
    CornerPoints(MultiplyTransformMatrices(CreateTranslateMatrix(o.left, o.top),
                                           CreateRotateMatrix(o.angle, NoPivot), FALSE),
                 GetTransformedDimensions(o))

\* calcACoords, of any object
ACoords(o) ==
    CornerPoints(MultiplyTransformMatrices(TranslateMatrixTo(RelativeCenterPoint(o)),
                                           CreateRotateMatrix(o.angle, NoPivot), FALSE),
                 GetTransformedDimensions(o))

\* ---- the matrix caches
\* the objects of the matrix cache: "m", and "p" that can be its group
MObjs == {"m", "p"}

NoGroup == "none"

\* number + '' and boolean + ''
Str(v) == ToString(v)

\* number + '' of a fraction: an integer as it is written
NumStr(p) == IF p[2] = 1 THEN ToString(p[1]) ELSE ToString(p[1]) \o "/" \o ToString(p[2])

\* transformMatrixKey(skipGroup) of object n, the properties being ps
RECURSIVE TransformMatrixKey(_, _, _)
TransformMatrixKey(ps, n, skipGroup) ==
    LET o == ps[n]
        sep == "_"
        prefix == IF ~skipGroup /\ o.group # NoGroup
                  THEN TransformMatrixKey(ps, o.group, skipGroup) \o sep
                  ELSE ""
    IN prefix \o NumStr(o.top) \o sep \o NumStr(o.left) \o sep \o Str(o.scaleX) \o sep
       \o Str(o.scaleY) \o sep \o Str(o.skewX) \o sep \o Str(o.skewY) \o sep
       \o Str(o.angle) \o sep \o o.originX \o sep \o o.originY \o sep \o Str(o.width)
       \o sep \o Str(o.height) \o sep \o Str(o.strokeWidth) \o Str(o.flipX) \o Str(o.flipY)

\* undefined, as a cache
NoCache == <<>>

\* The caches of all objects
Caches == [own |-> ownMatrixCache, full |-> matrixCache]

\* the matrix calcOwnMatrix computes when the cache does not answer
OwnMatrix(o) == ComposeMatrix(MatrixOptions(o, RelativeCenterPoint(o)))

\* a computed matrix is stored in a cache and returned
Stored(cs, which, n, key, value) ==
    [value |-> value, caches |-> [cs EXCEPT ![which][n] = [key |-> key, value |-> value]]]

\* `cache && cache.key === key`
Hit(cache, key) == cache # NoCache /\ cache.key = key

\* calcOwnMatrix, the key being known
OwnOrCached(cs, n, key, o) ==
    IF Hit(cs.own[n], key)
    THEN [value |-> cs.own[n].value, caches |-> cs]
    ELSE Stored(cs, "own", n, key, OwnMatrix(o))

\* calcOwnMatrix of object n: [value, caches]
CalcOwnMatrix(ps, cs, n) == OwnOrCached(cs, n, TransformMatrixKey(ps, n, TRUE), ps[n])

\* calcTransformMatrix: the product with the group's matrix is stored
MultiplyInto(n, key, matrix, group) ==
    Stored(group.caches, "full", n, key,
           MultiplyTransformMatrices(group.value, matrix, FALSE))

\* calcTransformMatrix(skipGroup) of object n: [value, caches]
RECURSIVE CalcTransformMatrix(_, _, _, _)

\* calcTransformMatrix after its call of calcOwnMatrix
CalcTransformMatrixFrom(ps, n, skipGroup, own) ==
    IF skipGroup \/ ps[n].group = NoGroup THEN own
    ELSE IF Hit(own.caches.full[n], TransformMatrixKey(ps, n, skipGroup))
    THEN [value |-> own.caches.full[n].value, caches |-> own.caches]
    ELSE MultiplyInto(n, TransformMatrixKey(ps, n, skipGroup), own.value,
                      CalcTransformMatrix(ps, own.caches, ps[n].group, FALSE))

CalcTransformMatrix(ps, cs, n, skipGroup) ==
    CalcTransformMatrixFrom(ps, n, skipGroup, CalcOwnMatrix(ps, cs, n))

objectFrame == <<sceneVars, eraserVars, patternVars, pencilVars>>

\* a matrix method returns r = [value, caches]: the caches it wrote, its result
Returns(c, r) ==
    /\ ownMatrixCache' = r.caches.own
    /\ matrixCache' = r.caches.full
    /\ call' = [c EXCEPT !.result = r.value]
    /\ UNCHANGED <<props, objectFrame>>

\* calcOwnMatrix() is called on object n
CallCalcOwnMatrix(n) ==
    Returns([fn |-> "calcOwnMatrix", obj |-> n, result |-> <<>>],
            CalcOwnMatrix(props, Caches, n))

\* calcTransformMatrix(skipGroup) is called on object n
CallCalcTransformMatrix(n, skipGroup) ==
    Returns([fn |-> "calcTransformMatrix", obj |-> n, skipGroup |-> skipGroup,
             result |-> <<>>],
            CalcTransformMatrix(props, Caches, n, skipGroup))

\* The properties a mutation writes, and their values
NumberProps == {"left"}
NumberValues == {Num(1), Num(2)}
FlagProps == {"strokeUniform"}

\* no utility function is being called
NoCall == [fn |-> "none", obj |-> "none", result |-> <<>>]

\* obj.set(prop, value) with a number
SetNumber(n, prop, value) ==
    /\ props[n][prop] # value
    /\ props' = [props EXCEPT ![n][prop] = value]
    /\ call' = NoCall
    /\ UNCHANGED <<ownMatrixCache, matrixCache, objectFrame>>

\* obj.set(prop, !obj[prop]) of a flag
SetFlag(n, prop) ==
    /\ props' = [props EXCEPT ![n][prop] = ~props[n][prop]]
    /\ call' = NoCall
    /\ UNCHANGED <<ownMatrixCache, matrixCache, objectFrame>>

\* Object "m" enters the group "p" or leaves it
SetGroup ==
    /\ props' = [props EXCEPT !["m"].group = IF @ = NoGroup THEN "p" ELSE NoGroup]
    /\ call' = NoCall
    /\ UNCHANGED <<ownMatrixCache, matrixCache, objectFrame>>

\* The objects when constructed: no group, no cache
InitialProps ==
    [left |-> Num(1), top |-> Num(0), width |-> 2, height |-> 2, scaleX |-> 2, scaleY |-> 1,
     skewX |-> 0, skewY |-> 0, angle |-> 0, originX |-> "left", originY |-> "top",
     strokeWidth |-> 2, strokeUniform |-> FALSE, flipX |-> FALSE, flipY |-> FALSE,
     group |-> NoGroup]

InitObjects ==
    /\ props = [n \in MObjs |-> InitialProps]
    /\ ownMatrixCache = [n \in MObjs |-> NoCache]
    /\ matrixCache = [n \in MObjs |-> NoCache]

\* ------------------------------------------------------------------ Spec
Leaves == Objs \ Collections

\* The scenes: every erasable value where the fan-out or the pattern reads
\* it. An attribute nothing reads (the children of a collection that is not
\* deep-erasable, the clip path of such a collection, the erasable flag of an
\* unset drawable) is left at its default.
SceneOK(e, cp, d) ==
    /\ \A o \in Leaves : e[o] # "deep"
    /\ e["a"] = "true"
    /\ e["g"] # "deep" => e["b"] = "true" /\ e["h"] = "true" /\ "g" \notin cp
    /\ e["h"] # "deep" => e["c"] = "true" /\ "h" \notin cp
    /\ d \in { [backgroundImage |-> "none", overlayImage |-> "ov"],
               [backgroundImage |-> "bg", overlayImage |-> "none"],
               [backgroundImage |-> "bg", overlayImage |-> "ov"] }
    /\ e["bg"] = (IF d["overlayImage"] = "ov" THEN "true" ELSE "false")
    /\ e["ov"] = (IF d["backgroundImage"] = "bg" THEN "false" ELSE "true")

InitScene ==
    /\ erasable \in [Objs -> {"false", "true", "deep"}]
    /\ clipPath \in SUBSET Collections
    /\ drawable \in [Range(Props) -> {"none", "bg", "ov"}]
    /\ SceneOK(erasable, clipPath, drawable)
    /\ aCoords = [o \in Range(TopObjects) |-> CalcACoords(o)]
    /\ lineCoords = [o \in Range(TopObjects) |-> CalcLineCoords(o, vpt)]
    /\ _objects = TopObjects

\* The objects that come with an eraser (one older path, id 0); the others
\* get theirs lazily.
PreErased == {"g", "c", "ov"}

InitialEraser(o) ==
    IF o \in PreErased
    THEN [has |-> TRUE, paths |-> BagAdd(EmptyBag, 0)]
    ELSE [has |-> FALSE, paths |-> EmptyBag]

\* PencilBrush's constructor
InitPencil ==
    /\ _points = <<>>
    /\ _hasStraightLine = FALSE
    /\ drawStraightLine = FALSE
    /\ oldEnd = <<>>
    /\ session = 0
    /\ pencilLog = <<>>

\* no call of preparePattern yet
InitPatternFrame ==
    pattern = [pc |-> "idle",
               pre |-> [visible |-> visible, eraser |-> eraser, drawable |-> drawable],
               backgroundImage |-> "none", overlayImage |-> "none",
               eraser |-> NoEraser, restorationContext |-> NoRestoration]

InitEraserState ==
    /\ dirty = {}
    /\ isErasing = FALSE
    /\ gest = <<>>
    /\ tasks = {}
    /\ objFired = [o \in Objs |-> EmptyBag]

InitEraser ==
    /\ eraser = [o \in Objs |-> InitialEraser(o)]
    /\ visible = [o \in Objs |-> TRUE]
    /\ inverted = FALSE
    /\ backgroundColor = FALSE
    /\ overlayColor = FALSE
    /\ InitPatternFrame
    /\ InitPencil
    /\ InitObjects
    /\ call = NoCall
    /\ translucent = FALSE
    /\ limitedToCanvasSize = FALSE
    /\ InitEraserState

Init ==
    /\ vpt = <<0, 0>>
    /\ InitScene
    /\ InitEraser

Next ==
    \/ FinalizeAndAddPath
    \/ \E t \in tasks : CloneResolve(t)
    \/ \E t \in tasks : ClipResolve(t)
    \/ \E t \in tasks : CloneReject(t)
    \/ \E g \in 1..Len(gest) : JoinThen(g)

Spec == Init /\ [][Next]_vars

\* preparePattern on every scene, with objects hidden by the application, with
\* erasers of earlier gestures, in both modes
Hidden == {{}, {"a"}, {"c"}, {"g", "b"}}
Erased == {{}, {"c", "ov"}, {"a", "bg"}, {"a", "g", "c", "bg", "ov"}}

InitPattern ==
    /\ vpt = <<0, 0>>
    /\ InitScene
    /\ \E E \in Erased :
          eraser = [o \in Objs |-> IF o \in E
                                  THEN [has |-> TRUE, paths |-> BagAdd(EmptyBag, 0)]
                                  ELSE NoEraser]
    /\ \E H \in Hidden : visible = [o \in Objs |-> o \notin H]
    /\ inverted \in BOOLEAN
    /\ backgroundColor \in BOOLEAN
    /\ overlayColor \in BOOLEAN
    /\ InitPatternFrame
    /\ InitPencil
    /\ InitObjects
    /\ call = NoCall
    /\ translucent = FALSE
    /\ limitedToCanvasSize = FALSE
    /\ InitEraserState

NextPattern ==
    \/ PreparePattern
    \/ RenderBackground
    \/ HideObjects
    \/ RenderObjects
    \/ PrepareOverlay
    \/ RenderOverlay

SpecPattern == InitPattern /\ [][NextPattern]_vars

\* The pencil brush on one scene, for every brush setting
InitOneScene ==
    /\ vpt = <<0, 0>>
    /\ erasable = [o \in Objs |-> "true"]
    /\ clipPath = {}
    /\ drawable = [backgroundImage |-> "none", overlayImage |-> "ov"]
    /\ aCoords = [o \in Range(TopObjects) |-> CalcACoords(o)]
    /\ lineCoords = [o \in Range(TopObjects) |-> CalcLineCoords(o, vpt)]
    /\ _objects = TopObjects
    /\ eraser = [o \in Objs |-> InitialEraser(o)]
    /\ visible = [o \in Objs |-> TRUE]
    /\ inverted = FALSE
    /\ backgroundColor = FALSE
    /\ overlayColor = FALSE
    /\ InitPatternFrame
    /\ InitEraserState
    /\ InitPencil
    /\ InitObjects

InitStroke ==
    /\ InitOneScene
    /\ call = NoCall
    /\ translucent \in BOOLEAN
    /\ limitedToCanvasSize \in BOOLEAN

NextPencil ==
    \/ \E pointer \in Pointers : \E main, key \in BOOLEAN :
          OnMouseDown(pointer, main, key)
    \/ \E pointer \in Pointers : \E main, key, outside \in BOOLEAN :
          OnMouseMove(pointer, main, key, outside)
    \/ \E main \in BOOLEAN : OnMouseUp(main)

SpecPencil == InitStroke /\ [][NextPencil]_vars

\* The eraser brush under pointer events, in both modes
BrushOnCanvas ==
    /\ vpt = <<0, 0>>
    /\ erasable = [o \in Objs |-> "true"]
    /\ clipPath = {}
    /\ drawable = [backgroundImage |-> "none", overlayImage |-> "ov"]
    /\ aCoords = [o \in Range(TopObjects) |-> CalcACoords(o)]
    /\ lineCoords = [o \in Range(TopObjects) |-> CalcLineCoords(o, vpt)]
    /\ _objects = TopObjects
    /\ eraser = [o \in Objs |-> InitialEraser(o)]
    /\ visible = [o \in Objs |-> TRUE]
    /\ inverted \in BOOLEAN
    /\ backgroundColor = FALSE
    /\ overlayColor = FALSE
    /\ InitPatternFrame
    /\ InitEraserState
    /\ InitPencil
    /\ InitObjects
    /\ translucent \in BOOLEAN
    /\ limitedToCanvasSize \in BOOLEAN

InitEraserBrush == BrushOnCanvas /\ call = NoCall

NextEraserBrush ==
    \/ \E pointer \in Pointers : \E main \in BOOLEAN : EraserOnMouseDown(pointer, main)
    \/ \E pointer \in Pointers : \E main, key, outside \in BOOLEAN : \E width \in Widths :
          EraserOnMouseMove(pointer, main, key, outside, width)

SpecEraserBrush == InitEraserBrush /\ [][NextEraserBrush]_vars

\* canvas.freeDrawingBrush is a PencilBrush or an EraserBrush; call.fn
\* holds the class of the brush
BrushClasses == {"PencilBrush", "EraserBrush"}

InitBrushes ==
    /\ BrushOnCanvas
    /\ \E class \in BrushClasses : call = [fn |-> class, obj |-> "none", result |-> <<>>]

NextBrushes ==
    \/ call.fn = "PencilBrush" /\ NextPencil
    \/ call.fn = "EraserBrush" /\ NextEraserBrush

SpecBrushes == InitBrushes /\ [][NextBrushes]_vars

\* ---- the utility functions, each called on every input of a bounded set
\* The brushes and the scene while a utility function is called
InitUtility ==
    /\ InitOneScene
    /\ translucent = FALSE
    /\ limitedToCanvasSize = FALSE

utilityFrame == <<sceneVars, eraserVars, patternVars, pencilVars, objectVars>>

\* decimatePoints on every sequence of up to MaxLen points
DecimateCoords == {[x |-> i, y |-> 0] : i \in 0..MaxCoord} \cup {[x |-> 0, y |-> 1]}
DecimateInputs == UNION {[1..k -> DecimateCoords] : k \in 0..MaxLen}
Zooms == {0, 1, 2}

InitDecimate ==
    /\ InitUtility
    /\ \E points \in DecimateInputs : \E distance \in 0..MaxCoord : \E zoom \in Zooms :
          call = [fn |-> "decimatePoints", points |-> points, distance |-> distance,
                  zoom |-> zoom, done |-> FALSE, result |-> <<>>]

CallDecimatePoints ==
    /\ call.fn = "decimatePoints" /\ ~call.done
    /\ call' = [call EXCEPT !.done = TRUE,
                            !.result = DecimatePoints(call.points, call.distance, call.zoom)]
    /\ UNCHANGED utilityFrame

NextDecimate == CallDecimatePoints

SpecDecimate == InitDecimate /\ [][NextDecimate]_vars

\* invertTransform on every matrix with small integer entries
MatrixEntries == (-1)..MaxCoord
Offsets == 0..MaxCoord

Matrices == {Mat(a, b, c, d, e, f) : a \in MatrixEntries, b \in MatrixEntries,
                                     c \in MatrixEntries, d \in MatrixEntries,
                                     e \in Offsets, f \in Offsets}

InitInvert ==
    /\ InitUtility
    /\ \E t \in Matrices :
          call = [fn |-> "invertTransform", t |-> t, done |-> FALSE, result |-> <<>>,
                  point |-> <<>>, desiredTransform |-> <<>>]

CallInvertTransform ==
    /\ call.fn = "invertTransform" /\ ~call.done
    /\ call' = [call EXCEPT !.done = TRUE, !.result = InvertTransform(call.t)]
    /\ UNCHANGED utilityFrame

\* the point and the path matrix the callers of invertTransform go on with
CallerPoint == [x |-> Num(1), y |-> Num(0)]
CallerPathMatrix == Mat(1, 0, 0, 1, 1, 1)

\* setXY of an object in a group, t being the group's matrix: the point is
\* taken through the inverse
SetXYContinues ==
    /\ call.fn = "invertTransform" /\ call.done /\ call.point = <<>>
    /\ call' = [call EXCEPT !.point = TransformPoint(CallerPoint, call.result, FALSE)]
    /\ UNCHANGED utilityFrame

\* _addPathToObjectEraser, t being the object's matrix: desiredTransform
AddPathContinues ==
    /\ call.fn = "invertTransform" /\ call.done /\ call.desiredTransform = <<>>
    /\ call' = [call EXCEPT !.desiredTransform =
                    MultiplyTransformMatrices(call.result, CallerPathMatrix, FALSE)]
    /\ UNCHANGED utilityFrame

NextInvert ==
    \/ CallInvertTransform
    \/ SetXYContinues
    \/ AddPathContinues

SpecInvert == InitInvert /\ [][NextInvert]_vars

\* multiplyTransformMatrixArray on every list of up to MaxMatrices entries
\* taken from three matrices that do not commute and a falsy entry
MatrixPool == {Mat(1, 0, 0, 1, 1, 0), Mat(0, 1, -1, 0, 0, 0), Mat(2, 0, 0, 1, 0, 1), Falsy}

MatrixLists == UNION {[1..k -> MatrixPool] : k \in 0..MaxMatrices}

InitMultiply ==
    /\ InitUtility
    /\ \E matrices \in MatrixLists : \E is2x2 \in BOOLEAN :
          call = [fn |-> "multiplyTransformMatrixArray", matrices |-> matrices,
                  is2x2 |-> is2x2, done |-> FALSE, result |-> <<>>]

CallMultiplyTransformMatrixArray ==
    /\ call.fn = "multiplyTransformMatrixArray" /\ ~call.done
    /\ call' = [call EXCEPT !.done = TRUE,
                            !.result = MultiplyTransformMatrixArray(call.matrices, call.is2x2)]
    /\ UNCHANGED utilityFrame

NextMultiply == CallMultiplyTransformMatrixArray

SpecMultiply == InitMultiply /\ [][NextMultiply]_vars

\* composeMatrix and then qrDecompose on components whose matrix has a first
\* column along an axis, so that Math.sqrt and Math.atan2 are exact
Angles == {-90, 0, 90, 180, 270}
Scales == (-1)..MaxCoord
Translations == {0, 1}
Skews == {<<0, 0>>, <<45, 0>>, <<-45, 0>>, <<-45, 45>>}

Components ==
    {[translateX |-> Num(tx), translateY |-> Num(ty), angle |-> angle,
      scaleX |-> Num(sx), scaleY |-> Num(sy), flipX |-> fx, flipY |-> fy,
      skewX |-> skew[1], skewY |-> skew[2]] :
        tx \in Translations, ty \in Translations, angle \in Angles, sx \in Scales,
        sy \in Scales, fx \in BOOLEAN, fy \in BOOLEAN, skew \in Skews}

InitDecompose ==
    /\ InitUtility
    /\ \E c \in Components :
          call = [fn |-> "composeMatrix", options |-> c, matrix |-> <<>>,
                  done |-> FALSE, result |-> <<>>]

CallComposeMatrix ==
    /\ call.fn = "composeMatrix"
    /\ call' = [call EXCEPT !.fn = "qrDecompose", !.matrix = ComposeMatrix(call.options)]
    /\ UNCHANGED utilityFrame

CallQrDecompose ==
    /\ call.fn = "qrDecompose" /\ ~call.done
    /\ call' = [call EXCEPT !.done = TRUE, !.result = QrDecompose(call.matrix)]
    /\ UNCHANGED utilityFrame

NextDecompose ==
    \/ CallComposeMatrix
    \/ CallQrDecompose

SpecDecompose == InitDecompose /\ [][NextDecompose]_vars

\* calcACoords on objects of every origin, with and without a stroke, a
\* scale, a rotation and a skew
OriginsX == {"left", "center", "right"}
OriginsY == {"top", "center", "bottom"}

Shapes ==
    {[left |-> Num(left), top |-> Num(0), width |-> width, height |-> 2, scaleX |-> scaleX,
      scaleY |-> scaleY, skewX |-> skewX, skewY |-> 0, angle |-> angle,
      originX |-> originX, originY |-> originY, strokeWidth |-> strokeWidth,
      strokeUniform |-> strokeUniform, flipX |-> FALSE, flipY |-> FALSE,
      group |-> NoGroup] :
        left \in {0, 1}, width \in 1..MaxCoord, scaleX \in {1, 2}, scaleY \in {1, 2},
        skewX \in {0, 45}, angle \in {0, 90}, originX \in OriginsX, originY \in OriginsY,
        strokeWidth \in {0, 1}, strokeUniform \in BOOLEAN}

InitCorners ==
    /\ InitUtility
    /\ \E o \in Shapes :
          call = [fn |-> "calcACoords", o |-> o, done |-> FALSE, result |-> <<>>]

CallCalcACoords ==
    /\ call.fn = "calcACoords" /\ ~call.done
    /\ call' = [call EXCEPT !.done = TRUE, !.result = ACoords(call.o)]
    /\ UNCHANGED utilityFrame

NextCorners == CallCalcACoords

SpecCorners == InitCorners /\ [][NextCorners]_vars

\* The origin translations on unskewed objects of every origin and of four
\* angles, for every origin pair asked for
OriginAngles == {-90, 0, 90, 180}

OriginShapes ==
    {[left |-> Num(1), top |-> Num(0), width |-> width, height |-> 2, scaleX |-> scaleX,
      scaleY |-> 1, skewX |-> 0, skewY |-> 0, angle |-> angle,
      originX |-> originX, originY |-> originY, strokeWidth |-> strokeWidth,
      strokeUniform |-> strokeUniform, flipX |-> FALSE, flipY |-> FALSE,
      group |-> NoGroup] :
        width \in 1..MaxCoord, scaleX \in {1, 2}, angle \in OriginAngles,
        originX \in OriginsX, originY \in OriginsY, strokeWidth \in {0, 1},
        strokeUniform \in BOOLEAN}

Positions == {[x |-> Num(0), y |-> Num(0)], [x |-> Num(MaxCoord), y |-> Num(1)]}

InitOrigin ==
    /\ InitUtility
    /\ \E o \in OriginShapes : \E pos \in Positions :
       \E originX \in OriginsX : \E originY \in OriginsY :
          call = [fn |-> "translateToCenterPoint", o |-> o, pos |-> pos,
                  originX |-> originX, originY |-> originY, center |-> <<>>,
                  back |-> <<>>, done |-> FALSE, result |-> <<>>]

CallTranslateToCenterPoint ==
    /\ call.fn = "translateToCenterPoint"
    /\ call' = [call EXCEPT !.fn = "translateToOriginPoint",
                            !.center = TranslateToCenterPoint(call.o, call.pos, call.originX,
                                                              call.originY)]
    /\ UNCHANGED utilityFrame

CallTranslateToOriginPoint ==
    /\ call.fn = "translateToOriginPoint"
    /\ call' = [call EXCEPT !.fn = "setPositionByOrigin",
                            !.back = TranslateToOriginPoint(call.o, call.center, call.originX,
                                                            call.originY)]
    /\ UNCHANGED utilityFrame

CallSetPositionByOrigin ==
    /\ call.fn = "setPositionByOrigin"
    /\ call' = [call EXCEPT !.fn = "getPointByOrigin",
                            !.o = SetPositionByOrigin(call.o, call.pos, call.originX,
                                                      call.originY)]
    /\ UNCHANGED utilityFrame

CallGetPointByOrigin ==
    /\ call.fn = "getPointByOrigin" /\ ~call.done
    /\ call' = [call EXCEPT !.done = TRUE,
                            !.result = GetPointByOrigin(call.o, call.originX, call.originY)]
    /\ UNCHANGED utilityFrame

NextOrigin ==
    \/ CallTranslateToCenterPoint
    \/ CallTranslateToOriginPoint
    \/ CallSetPositionByOrigin
    \/ CallGetPointByOrigin

SpecOrigin == InitOrigin /\ [][NextOrigin]_vars

\* intersectsWithObject and isContainedWithinObject on two rectangles, for
\* every viewport and every pair of arguments. An object is [at, was]: the
\* rectangle it spans, and the one it spanned at its last setCoords()
Rects ==
    { [l |-> 0, t |-> 0, r |-> 4, b |-> 4],
      [l |-> 1, t |-> 1, r |-> 3, b |-> 3],     \* inside the first
      [l |-> 3, t |-> 1, r |-> 7, b |-> 3],     \* across the first and the last
      [l |-> 4, t |-> 0, r |-> 6, b |-> 4],     \* touching them
      [l |-> 6, t |-> 0, r |-> 10, b |-> 4] }

Placed == [at : Rects, was : Rects]

\* The four coordinate sets of an object under viewport v
CoordsOf(x, v) ==
    [acalc |-> x.at, lcalc |-> TransformRect(x.at, v),
     astored |-> x.was, lstored |-> TransformRect(x.was, v)]

InitIntersect ==
    /\ InitUtility
    /\ \E a \in Placed : \E b \in Placed : \E v \in Viewports :
       \E absolute \in BOOLEAN : \E calculate \in BOOLEAN :
          call = [fn |-> "intersectsWithObject", a |-> a, b |-> b, v |-> v,
                  absolute |-> absolute, calculate |-> calculate, done |-> FALSE,
                  intersects |-> <<>>, contained |-> <<>>]

\* a.intersectsWithObject(b, absolute, calculate) and b.intersectsWithObject(a, ...)
CallIntersectsWithObject ==
    /\ call.fn = "intersectsWithObject" /\ call.intersects = <<>>
    /\ call' = [call EXCEPT !.intersects =
                   <<IntersectsWithObject(CoordsOf(call.a, call.v), CoordsOf(call.b, call.v),
                                          call.absolute, call.calculate),
                     IntersectsWithObject(CoordsOf(call.b, call.v), CoordsOf(call.a, call.v),
                                          call.absolute, call.calculate)>>]
    /\ UNCHANGED utilityFrame

\* a.isContainedWithinObject(b, absolute, calculate)
CallIsContainedWithinObject ==
    /\ call.fn = "intersectsWithObject" /\ call.intersects # <<>> /\ ~call.done
    /\ call' = [call EXCEPT !.done = TRUE,
                            !.contained =
                   IsContainedWithinObject(CoordsOf(call.a, call.v), CoordsOf(call.b, call.v),
                                           call.absolute, call.calculate)]
    /\ UNCHANGED utilityFrame

NextIntersect ==
    \/ CallIntersectsWithObject
    \/ CallIsContainedWithinObject

SpecIntersect == InitIntersect /\ [][NextIntersect]_vars

\* ---- an erase path handed through a deep-erasable collection with a clip
\* path. The fabric objects involved live in a heap, a sequence of objects
\* addressed by their place; 0 is undefined. `of` is the object of the
\* initial heap an object is a copy of, 0 for an object made by
\* mergeClipPaths; merged lists the two clip paths such an object stands for.
HeapObject(matrix, clip, absolutePositioned, of) ==
    [matrix |-> matrix, clipPath |-> clip, absolutePositioned |-> absolutePositioned,
     merged |-> <<>>, of |-> of]

Alloc(heap, o) == [heap |-> Append(heap, o), id |-> Len(heap) + 1]

\* object.clone(): a copy of the object, of its clip path and of what a
\* merged clip path stands for
RECURSIVE CloneObject(_, _)
CloneMerged(id, clip, first, second) ==
    Alloc(second.heap, [second.heap[id] EXCEPT !.clipPath = clip,
                                                !.merged = <<first, second.id>>])

CloneSecond(id, clip, first) ==
    CloneMerged(id, clip, first.id, CloneObject(first.heap, first.heap[id].merged[2]))

CloneOwn(id, c) ==
    IF c.heap[id].merged = <<>>
    THEN Alloc(c.heap, [c.heap[id] EXCEPT !.clipPath = c.id])
    ELSE CloneSecond(id, c.id, CloneObject(c.heap, c.heap[id].merged[1]))

CloneObject(heap, id) ==
    IF id = 0 THEN [heap |-> heap, id |-> 0]
    ELSE CloneOwn(id, CloneObject(heap, heap[id].clipPath))

\* fabric.util.mergeClipPaths(c1, c2): one clip path standing for both
MergeClipPaths(heap, c1, c2) ==
    Alloc(heap, [HeapObject(iMatrix, 0, FALSE, 0) EXCEPT !.merged = <<c1, c2>>])

\* `path.clipPath = path.clipPath ? mergeClipPaths(clipPath, path.clipPath) : clipPath`
SetClipPath(heap, path, clip) == [heap EXCEPT ![path].clipPath = clip]

\* A faulty variant of AssignClipPath: the clip path the path carried is dropped
AssignClipPathOnly(heap, path, clip) == SetClipPath(heap, path, clip)

AssignClipPath(heap, path, clip) ==
    IF heap[path].clipPath # 0
    THEN SetClipPath(MergeClipPaths(heap, clip, heap[path].clipPath).heap, path,
                     Len(heap) + 1)
    ELSE SetClipPath(heap, path, clip)

\* the `transform` of applyClipPathToPath
ClipTransform(heap, path, clip, container) ==
    IF heap[clip].absolutePositioned
    THEN InvertTransform(heap[path].matrix)
    ELSE MultiplyTransformMatrices(InvertTransform(heap[path].matrix), container, FALSE)

\* EraserBrush.applyClipPathToPath(path, clipPath, clipPathContainerTransformMatrix)
ApplyClipPathToPath(heap, path, clip, container) ==
    [heap |-> AssignClipPath(
                 [heap EXCEPT ![clip].absolutePositioned = FALSE,
                              ![clip].matrix =
                                  MultiplyTransformMatrices(
                                      ClipTransform(heap, path, clip, container),
                                      heap[clip].matrix, FALSE)],
                 path, clip),
     id |-> path]

ApplyToClones(path, clip, container) ==
    ApplyClipPathToPath(clip.heap, path, clip.id, container)

ClipOfClonedPath(path, clip, container) ==
    ApplyToClones(path.id, CloneObject(path.heap, clip), container)

\* A faulty variant of ClonePathWithClipPath: no clones are made
ClonePathWithClipPathInPlace(heap, path, clip, objTransform) ==
    ApplyClipPathToPath(heap, path, clip, objTransform)

\* EraserBrush.clonePathWithClipPath(path, object), clip = object.clipPath
\* and objTransform = object.calcTransformMatrix(), once both clones are there
ClonePathWithClipPath(heap, path, clip, objTransform) ==
    ClipOfClonedPath(CloneObject(heap, path), clip, objTransform)

\* the `.then` of path.clone() in _addPathToObjectEraser: the clone is taken
\* to the plane of the target, whose matrix is target
TransformClone(c, target) ==
    [heap |-> [c.heap EXCEPT ![c.id].matrix =
                   MultiplyTransformMatrices(InvertTransform(target), @, FALSE)],
     id |-> c.id]

AttachClone(heap, path, target) == TransformClone(CloneObject(heap, path), target)

PathMatrices == {iMatrix, Mat(1, 0, 0, 1, 1, 0), Mat(2, 0, 0, 1, 0, 0)}
ClipMatrices == {iMatrix, Mat(1, 0, 0, 1, 0, 1)}
GroupMatrices == {iMatrix, Mat(1, 0, 0, 1, MaxCoord, 0), Mat(0, 1, -1, 0, 0, 0)}

\* the matrices of the collection's child, of the object beside the
\* collection, of the collection nested in the collection and of its child
InsideMatrix == Mat(1, 0, 0, 1, MaxCoord, 1)
OutsideMatrix == Mat(1, 0, 0, 1, 1, 1)
NestedMatrix == Mat(1, 0, 0, 1, 1, MaxCoord)
LeafMatrix == Mat(0, 1, -1, 0, 1, 0)

\* The heap holds at first the gesture's path, the clip path it may carry,
\* the collection's clip path and the clip path of the deep-erasable
\* collection nested in it (nested = 0: that one has no clip path). before
\* is that heap; inner and deep are the paths handed down into the two
\* collections, inside, leaf and outside the paths their children and the
\* object beside them were given
ClipCall(heap, objTransform, nested) ==
    [fn |-> "clonePathWithClipPath", heap |-> heap, before |-> heap,
     path |-> 1, own |-> 2, clip |-> 3, nested |-> nested,
     objTransform |-> objTransform, inner |-> 0, inside |-> 0, outside |-> 0,
     deep |-> 0, leaf |-> 0]

\* whether the nested collection has a clip path, and an absolutely positioned one
NestedClips == {<<0, FALSE>>, <<4, FALSE>>, <<4, TRUE>>}

InitClip ==
    /\ InitUtility
    /\ \E pm \in PathMatrices : \E cm \in ClipMatrices : \E gm \in GroupMatrices :
       \E own \in {0, 2} : \E absolutePositioned \in BOOLEAN : \E nested \in NestedClips :
          call = ClipCall(<<HeapObject(pm, own, FALSE, 1),
                            HeapObject(iMatrix, 0, FALSE, 2),
                            HeapObject(cm, 0, absolutePositioned, 3),
                            HeapObject(Mat(1, 0, 0, 1, 1, 1), 0, nested[2], 4)>>,
                          gm, nested[1])

StoreClone(field, r) == call' = [call EXCEPT !.heap = r.heap, ![field] = r.id]

\* the clones of clonePathWithClipPath(path, collection) are there
\* the `.then` of clonePathWithClipPath(path, collection): the path goes to
\* the collection's erasable children, and through a nested collection
\* without clip path to that one's children at once
HandDown(r) ==
    call' = [call EXCEPT !.heap = r.heap, !.inner = r.id,
                         !.deep = IF call.nested = 0 THEN r.id ELSE 0]

ClipClonesResolve ==
    /\ call.fn = "clonePathWithClipPath" /\ call.inner = 0
    /\ HandDown(ClonePathWithClipPath(call.heap, call.path, call.clip, call.objTransform))
    /\ UNCHANGED utilityFrame

\* the clones of clonePathWithClipPath(_path, nested collection) are there
NestedClipClonesResolve ==
    /\ call.fn = "clonePathWithClipPath" /\ call.inner # 0 /\ call.deep = 0
    /\ StoreClone("deep", ClonePathWithClipPath(call.heap, call.inner, call.nested,
                                                NestedMatrix))
    /\ UNCHANGED utilityFrame

\* the nested collection's child gets its clone of the path handed down
LeafCloneResolves ==
    /\ call.fn = "clonePathWithClipPath" /\ call.deep # 0 /\ call.leaf = 0
    /\ StoreClone("leaf", AttachClone(call.heap, call.deep, LeafMatrix))
    /\ UNCHANGED utilityFrame

\* the collection's child gets its clone of the path handed down
InsideCloneResolves ==
    /\ call.fn = "clonePathWithClipPath" /\ call.inner # 0 /\ call.inside = 0
    /\ StoreClone("inside", AttachClone(call.heap, call.inner, InsideMatrix))
    /\ UNCHANGED utilityFrame

\* the object beside the collection gets its clone of the gesture's path
OutsideCloneResolves ==
    /\ call.fn = "clonePathWithClipPath" /\ call.outside = 0
    /\ StoreClone("outside", AttachClone(call.heap, call.path, OutsideMatrix))
    /\ UNCHANGED utilityFrame

NextClip ==
    \/ ClipClonesResolve
    \/ NestedClipClonesResolve
    \/ LeafCloneResolves
    \/ InsideCloneResolves
    \/ OutsideCloneResolves

SpecClip == InitClip /\ [][NextClip]_vars

\* The matrix caches of an object and its group, under mutations and calls
InitMatrix ==
    /\ InitUtility
    /\ call = NoCall

NextMatrix ==
    \/ \E n \in MObjs : \E prop \in NumberProps : \E value \in NumberValues :
          SetNumber(n, prop, value)
    \/ \E n \in MObjs : \E prop \in FlagProps : SetFlag(n, prop)
    \/ SetGroup
    \/ \E n \in MObjs : CallCalcOwnMatrix(n)
    \/ \E n \in MObjs : \E skipGroup \in BOOLEAN : CallCalcTransformMatrix(n, skipGroup)

SpecMatrix == InitMatrix /\ [][NextMatrix]_vars

\* The same brush on a panned canvas: one scene, every viewport
InitViewport ==
    /\ vpt \in Viewports
    /\ erasable = [o \in Objs |-> IF o = "g" THEN "deep" ELSE "true"]
    /\ clipPath = {"g"}
    /\ drawable = [backgroundImage |-> "bg", overlayImage |-> "none"]
    /\ aCoords = [o \in Range(TopObjects) |-> CalcACoords(o)]
    /\ lineCoords = [o \in Range(TopObjects) |-> CalcLineCoords(o, vpt)]
    /\ _objects = TopObjects
    /\ InitEraser

SpecViewport == InitViewport /\ [][Next]_vars

\* Eraser gestures from pointer-down to the end of the fan-out, every
\* clone promise resolving: a promise that can resolve does, and the
\* callback of a fulfilled Promise.all runs
NextGesture ==
    \/ \E pointer \in Pointers : \E main \in BOOLEAN : EraserOnMouseDown(pointer, main)
    \/ FinalizeAndAddPath
    \/ \E t \in tasks : CloneResolve(t)
    \/ \E t \in tasks : ClipResolve(t)
    \/ \E g \in 1..Len(gest) : JoinThen(g)

SpecGesture ==
    /\ InitViewport
    /\ [][NextGesture]_vars
    /\ WF_vars(\E t \in tasks : CloneResolve(t))
    /\ WF_vars(\E t \in tasks : ClipResolve(t))
    /\ WF_vars(\E g \in 1..Len(gest) : JoinThen(g))

\* ---- the stored corner sets of the objects of the matrix cache: here
\* aCoords[n] and lineCoords[n] are corner records {tl, tr, bl, br}, <<>>
\* while absent
NoCoords == <<>>

\* canvas.viewportTransform, a translation
ViewportMatrix(v) == CreateTranslateMatrix(Num(v[1]), Num(v[2]))

\* calcLineCoords (padding 0): the corners of calcACoords through the viewport
LineCoords(a, v) ==
    [tl |-> TransformPoint(a.tl, ViewportMatrix(v), FALSE),
     tr |-> TransformPoint(a.tr, ViewportMatrix(v), FALSE),
     bl |-> TransformPoint(a.bl, ViewportMatrix(v), FALSE),
     br |-> TransformPoint(a.br, ViewportMatrix(v), FALSE)]

\* getTotalAngle, called by calcLineCoords: in a group it calls
\* calcTransformMatrix, which writes the caches
GetTotalAngleCaches(ps, cs, n) ==
    IF ps[n].group # NoGroup THEN CalcTransformMatrix(ps, cs, n, FALSE).caches ELSE cs

\* `const coords = [tl, tr, br, bl]`
CornerList(c) == <<c.tl, c.tr, c.br, c.bl>>

\* What a coordinate method leaves: its value, the stored sets, the caches
Coords(value, a, l, cs) == [value |-> value, a |-> a, l |-> l, caches |-> cs]

\* the lazy branch of _getCoords, a2 being aCoords after the first `if`
FillLineCoords(ps, cs, n, v, a2, l, absolute) ==
    IF l = NoCoords
    THEN Coords(IF absolute THEN a2 ELSE LineCoords(ACoords(ps[n]), v), a2,
                LineCoords(ACoords(ps[n]), v), GetTotalAngleCaches(ps, cs, n))
    ELSE Coords(IF absolute THEN a2 ELSE l, a2, l, cs)

\* A faulty variant of StoredOrComputed: what is calculated is stored too
StoredOrComputedKept(ps, cs, n, v, a, l, absolute, calculate) ==
    IF calculate
    THEN IF absolute
         THEN Coords(ACoords(ps[n]), ACoords(ps[n]), l, cs)
         ELSE Coords(LineCoords(ACoords(ps[n]), v), a, LineCoords(ACoords(ps[n]), v),
                     GetTotalAngleCaches(ps, cs, n))
    ELSE FillLineCoords(ps, cs, n, v, IF a = NoCoords THEN ACoords(ps[n]) ELSE a, l,
                        absolute)

\* _getCoords(absolute, calculate) of object n whose stored sets are a and l
StoredOrComputed(ps, cs, n, v, a, l, absolute, calculate) ==
    IF calculate
    THEN IF absolute
         THEN Coords(ACoords(ps[n]), a, l, cs)
         ELSE Coords(LineCoords(ACoords(ps[n]), v), a, l, GetTotalAngleCaches(ps, cs, n))
    ELSE FillLineCoords(ps, cs, n, v, IF a = NoCoords THEN ACoords(ps[n]) ELSE a, l,
                        absolute)

\* `coords.map((p) => transformPoint(p, t))`
MapPoints(coords, t) == [i \in 1..Len(coords) |-> TransformPoint(coords[i], t, FALSE)]

\* getCoords after _getCoords returned r; t = this.group.calcTransformMatrix()
ThroughGroup(r, group, t) ==
    IF group = NoGroup
    THEN [r EXCEPT !.value = CornerList(@)]
    ELSE [r EXCEPT !.value = MapPoints(CornerList(@), t.value), !.caches = t.caches]

\* getCoords(absolute, calculate) of object n
GetCoordsOf(ps, n, r) ==
    ThroughGroup(r, ps[n].group,
                 IF ps[n].group = NoGroup THEN <<>>
                 ELSE CalcTransformMatrix(ps, r.caches, ps[n].group, FALSE))

coordsFrame == <<erasable, clipPath, _objects, drawable, vpt, eraserVars, patternVars, pencilVars,
                 props>>

\* obj.getCoords(absolute, calculate) is called on object n
CallGetCoords(n, absolute, calculate) ==
    LET r == GetCoordsOf(props, n,
                         StoredOrComputed(props, Caches, n, vpt, aCoords[n], lineCoords[n],
                                          absolute, calculate))
    IN /\ aCoords' = [aCoords EXCEPT ![n] = r.a]
       /\ lineCoords' = [lineCoords EXCEPT ![n] = r.l]
       /\ ownMatrixCache' = r.caches.own
       /\ matrixCache' = r.caches.full
       /\ call' = [fn |-> "getCoords", obj |-> n, absolute |-> absolute,
                   calculate |-> calculate, result |-> r.value]
       /\ UNCHANGED coordsFrame

\* obj.setCoords() is called on object n
CallSetCoords(n) ==
    /\ aCoords' = [aCoords EXCEPT ![n] = ACoords(props[n])]
    /\ lineCoords' = [lineCoords EXCEPT ![n] =
                         IF props[n].group # NoGroup THEN ACoords(props[n])
                         ELSE LineCoords(ACoords(props[n]), vpt)]
    /\ call' = [fn |-> "setCoords", obj |-> n, result |-> <<>>]
    /\ UNCHANGED <<coordsFrame, ownMatrixCache, matrixCache>>

\* The objects are constructed and have no stored corner set yet
InitCoords ==
    /\ vpt \in Viewports
    /\ erasable = [o \in Objs |-> "true"]
    /\ clipPath = {}
    /\ drawable = [backgroundImage |-> "none", overlayImage |-> "ov"]
    /\ aCoords = [n \in MObjs |-> NoCoords]
    /\ lineCoords = [n \in MObjs |-> NoCoords]
    /\ _objects = TopObjects
    /\ eraser = [o \in Objs |-> InitialEraser(o)]
    /\ visible = [o \in Objs |-> TRUE]
    /\ inverted = FALSE
    /\ backgroundColor = FALSE
    /\ overlayColor = FALSE
    /\ InitPatternFrame
    /\ InitEraserState
    /\ InitPencil
    /\ InitObjects
    /\ translucent = FALSE
    /\ limitedToCanvasSize = FALSE
    /\ call = NoCall

NextCoords ==
    \/ \E n \in MObjs : \E prop \in NumberProps : \E value \in NumberValues :
          SetNumber(n, prop, value)
    \/ SetGroup
    \/ CallSetCoords("m")
    \/ \E absolute, calculate \in BOOLEAN : CallGetCoords("m", absolute, calculate)

SpecCoords == InitCoords /\ [][NextCoords]_vars

\* createRotateMatrix for the right angles and every pivot of a grid around
\* the origin, and transformPoint of the pivot by the matrix
PivotPoints == {[x |-> Num(x), y |-> Num(y)] : x, y \in -MaxCoord..MaxCoord}

InitRotate ==
    /\ InitUtility
    /\ \E angle \in OriginAngles : \E pivot \in PivotPoints :
          call = [fn |-> "createRotateMatrix", angle |-> angle, pivot |-> pivot,
                  result |-> <<>>, image |-> <<>>]

CallCreateRotateMatrix ==
    /\ call.fn = "createRotateMatrix" /\ call.result = <<>>
    /\ call' = [call EXCEPT !.result = CreateRotateMatrix(call.angle, call.pivot)]
    /\ UNCHANGED utilityFrame

\* transformPoint(pivot, matrix)
CallTransformPivot ==
    /\ call.fn = "createRotateMatrix" /\ call.result # <<>> /\ call.image = <<>>
    /\ call' = [call EXCEPT !.image = TransformPoint(call.pivot, call.result, FALSE)]
    /\ UNCHANGED utilityFrame

NextRotate ==
    \/ CallCreateRotateMatrix
    \/ CallTransformPivot

SpecRotate == InitRotate /\ [][NextRotate]_vars

\* ---- Group.applyEraserToObjects on the group g, whose eraser holds up to
\* two paths. call holds the promise the method returned: the eraser read at
\* the call, the erasers of all objects then, and where the chain of
\* callbacks stands
FormerPaths == <<-1, -2>>

GroupErasers ==
    { NoEraser,
      [has |-> TRUE, paths |-> BagAdd(EmptyBag, -1)],
      [has |-> TRUE, paths |-> BagAdd(BagAdd(EmptyBag, -1), -2)] }

\* eraser.getObjects('path') of the eraser's clone
GetObjects(e) == SelectSeq(FormerPaths, LAMBDA p : p \in DOMAIN e.paths)

\* A faulty variant of WithoutEraser: the group keeps its eraser
WithEraserKept(group) == eraser

\* `delete _this.eraser`
WithoutEraser(group) == [eraser EXCEPT ![group] = NoEraser]

\* Group._addEraserPathToObjects(path): the clone promises for the children
AddEraserPathToObjects(group, path, clips) ==
    Flatten([i \in 1..Len(Objects(group)) |->
                AddPathToObjectEraser(Objects(group)[i], path, clips, "none", FALSE)])

groupFrame == <<sceneVars, patternVars, pencilVars, objectVars, isErasing, gest>>

\* group.applyEraserToObjects() is called: `eraser = this.eraser`
CallApplyEraserToObjects(group) ==
    /\ call = NoCall
    /\ call' = [fn |-> "applyEraserToObjects", obj |-> group, eraser |-> eraser[group],
                before |-> eraser, pc |-> "called", result |-> <<>>]
    /\ UNCHANGED <<groupFrame, eraser, dirty, tasks, objFired>>

\* the callback of Promise.resolve().then
ThenOfApply ==
    /\ call.fn = "applyEraserToObjects" /\ call.pc = "called"
    /\ IF call.eraser.has
       THEN /\ eraser' = WithoutEraser(call.obj)
            /\ call' = [call EXCEPT !.pc = "cloning"]
       ELSE /\ call' = [call EXCEPT !.pc = "resolved"]
            /\ UNCHANGED eraser
    /\ UNCHANGED <<groupFrame, dirty, tasks, objFired>>

\* eraser.clone() resolves: every path goes to the children, through
\* clipPath.clone() first if the group has a clip path
EraserCloneResolves ==
    /\ call.fn = "applyEraserToObjects" /\ call.pc = "cloning"
    /\ LET paths == GetObjects(call.eraser)
           new == IF call.obj \in clipPath
                  THEN [i \in 1..Len(paths) |->
                           Task(paths[i], call.obj, "apply", <<>>, "none", FALSE)]
                  ELSE Flatten([i \in 1..Len(paths) |->
                                   AddEraserPathToObjects(call.obj, paths[i], <<>>)])
       IN /\ tasks' = AddTasks(tasks, new)
          /\ eraser' = PrepareEraser(new)
    /\ call' = [call EXCEPT !.pc = "joining"]
    /\ UNCHANGED <<groupFrame, dirty, objFired>>

\* clipPath.clone() of task t resolves: applyClipPathToPath, then the path
\* goes to the children
GroupClipResolves(t) ==
    /\ t.kind = "apply" /\ t.st = "pending"
    /\ LET new == AddEraserPathToObjects(t.obj, t.g, <<t.obj>>)
       IN /\ tasks' = AddTasks((tasks \ {t}) \cup {[t EXCEPT !.st = "done"]}, new)
          /\ eraser' = PrepareEraser(new)
    /\ UNCHANGED <<groupFrame, call, dirty, objFired>>

\* path.clone() of task t resolves in _addPathToObjectEraser, called
\* without a context
PathCloneResolves(t) ==
    /\ t.kind = "attach" /\ t.st = "pending" /\ ~t.ctx
    /\ tasks' = (tasks \ {t}) \cup {[t EXCEPT !.st = "done"]}
    /\ eraser' = [eraser EXCEPT ![t.obj].paths = BagAdd(@, t.g)]
    /\ dirty' = dirty \cup {t.obj}
    /\ objFired' = [objFired EXCEPT ![t.obj] = BagAdd(@, t.g)]
    /\ UNCHANGED <<groupFrame, call>>

\* every Promise.all of the chain is fulfilled: the returned promise resolves
ApplyResolves ==
    /\ call.fn = "applyEraserToObjects" /\ call.pc = "joining"
    /\ \A t \in tasks : t.st = "done"
    /\ call' = [call EXCEPT !.pc = "resolved"]
    /\ UNCHANGED <<groupFrame, eraser, dirty, tasks, objFired>>

\* The group g with or without an eraser and a clip path, its children of
\* every erasable value
InitGroupEraser ==
    /\ vpt = <<0, 0>>
    /\ erasable \in [Objs -> {"false", "true", "deep"}]
    /\ \A o \in Leaves : erasable[o] # "deep"
    /\ \A o \in Objs \ {"b", "h", "c"} : erasable[o] = "true"
    /\ clipPath \in SUBSET Collections
    /\ drawable = [backgroundImage |-> "none", overlayImage |-> "ov"]
    /\ aCoords = [o \in Range(TopObjects) |-> CalcACoords(o)]
    /\ lineCoords = [o \in Range(TopObjects) |-> CalcLineCoords(o, vpt)]
    /\ _objects = TopObjects
    /\ \E e \in GroupErasers :
          eraser = [o \in Objs |-> IF o = "g" THEN e ELSE InitialEraser(o)]
    /\ visible = [o \in Objs |-> TRUE]
    /\ inverted = FALSE
    /\ backgroundColor = FALSE
    /\ overlayColor = FALSE
    /\ InitPatternFrame
    /\ InitEraserState
    /\ InitPencil
    /\ InitObjects
    /\ translucent = FALSE
    /\ limitedToCanvasSize = FALSE
    /\ call = NoCall

NextGroupEraser ==
    \/ CallApplyEraserToObjects("g")
    \/ ThenOfApply
    \/ EraserCloneResolves
    \/ \E t \in tasks : GroupClipResolves(t)
    \/ \E t \in tasks : ClipResolve(t)
    \/ \E t \in tasks : PathCloneResolves(t)
    \/ ApplyResolves

SpecGroupEraser == InitGroupEraser /\ [][NextGroupEraser]_vars

\* ---- makeBoundingBoxFromPoints on every list of up to MaxPoints points of
\* a grid
\* Point.min / Point.max / Point.subtract
PointMin(p, q) == [x |-> IF q.x < p.x THEN q.x ELSE p.x, y |-> IF q.y < p.y THEN q.y ELSE p.y]
PointMax(p, q) == [x |-> IF q.x > p.x THEN q.x ELSE p.x, y |-> IF q.y > p.y THEN q.y ELSE p.y]
PointSubtract(p, q) == [x |-> p.x - q.x, y |-> p.y - q.y]

\* points.reduce(({ min, max }, curr) => ..., acc), from the i-th point on
RECURSIVE ReduceMinMax(_, _, _)
ReduceMinMax(points, i, acc) ==
    IF i > Len(points) THEN acc
    ELSE ReduceMinMax(points, i + 1,
                      [min |-> PointMin(acc.min, points[i]),
                       max |-> PointMax(acc.max, points[i])])

\* the box of the corners min and max
BBox(min, size) == [left |-> min.x, top |-> min.y, width |-> size.x, height |-> size.y]

\* A faulty variant of MakeBoundingBoxFromPoints: the reduction starts at the origin
MakeBoundingBoxFromOrigin(points) ==
    IF Len(points) = 0 THEN [left |-> 0, top |-> 0, width |-> 0, height |-> 0]
    ELSE LET r == ReduceMinMax(points, 1, [min |-> [x |-> 0, y |-> 0],
                                           max |-> [x |-> 0, y |-> 0]])
         IN BBox(r.min, PointSubtract(r.max, r.min))

\* makeBoundingBoxFromPoints(points)
MakeBoundingBoxFromPoints(points) ==
    IF Len(points) = 0 THEN [left |-> 0, top |-> 0, width |-> 0, height |-> 0]
    ELSE LET r == ReduceMinMax(points, 1, [min |-> points[1], max |-> points[1]])
         IN BBox(r.min, PointSubtract(r.max, r.min))

BoxPoints == {[x |-> x, y |-> y] : x, y \in 0..MaxCoord}
BoxInputs == UNION {[1..k -> BoxPoints] : k \in 0..MaxPoints}

InitBox ==
    /\ InitUtility
    /\ \E points \in BoxInputs :
          call = [fn |-> "makeBoundingBoxFromPoints", points |-> points, done |-> FALSE,
                  result |-> <<>>]

CallMakeBoundingBoxFromPoints ==
    /\ call.fn = "makeBoundingBoxFromPoints" /\ ~call.done
    /\ call' = [call EXCEPT !.done = TRUE, !.result = MakeBoundingBoxFromPoints(call.points)]
    /\ UNCHANGED utilityFrame

NextBox == CallMakeBoundingBoxFromPoints

SpecBox == InitBox /\ [][NextBox]_vars

\* ------------------------------------------------------------------ claims
Gestures == 1..Len(gest)

\* The leaves the path must reach from obj: obj itself, or for a deep-erasable
\* collection the leaves below its erasable children
RECURSIVE LeafTargets(_)
LeafTargets(o) ==
    IF o \in Collections /\ erasable[o] = "deep"
    THEN UNION {LeafTargets(c) : c \in {d \in Range(Objects(o)) : erasable[d] # "false"}}
    ELSE {o}

ErasableDrawables ==
    {drawable[p] : p \in {q \in Range(Props) :
                            drawable[q] # "none" /\ erasable[drawable[q]] # "false"}}

\* Every object gesture g's fan-out targets
Targeted(g) ==
    UNION {LeafTargets(o) : o \in Range(gest[g].handed)} \cup ErasableDrawables

\* The objects whose eraser holds a path of gesture g
Affected(g) == {o \in Objs : BagCount(eraser[o].paths, g) > 0}

AttachTasks(g, o) == {t \in tasks : t.g = g /\ t.obj = o /\ t.kind = "attach"}

\* C1: the canvas' 'erasing:end' of a gesture, and the 'path:created' after
\* it, are fired only once no clone promise of the gesture is pending and
\* every targeted object's eraser holds the gesture's path.
C1_EndAfterFanOut ==
    \A g \in Gestures :
        (gest[g].path # <<>> /\ "erasing:end" \in Range(gest[g].events))
        => /\ \A t \in TasksOf(g) : t.st # "pending"
           /\ \A o \in Targeted(g) : BagCount(eraser[o].paths, g) >= 1
           /\ gest[g].events = <<"before:path:created", "erasing:end", "path:created">>

\* a gesture through a clipped deep collection and a drawable has ended
C1_Witness ==
    \E g \in Gestures :
        /\ gest[g].status = "ended"
        /\ \E t \in TasksOf(g) : t.kind = "clip"
        /\ \E t \in TasksOf(g) : t.prop # "none"
        /\ Cardinality(Targeted(g)) >= 3

\* C2: within one gesture no object is the target of two attachment tasks,
\* and no eraser receives two paths of the gesture.
C2_OneWriterPerTarget ==
    \A g \in Gestures : \A o \in Objs :
        /\ Cardinality(AttachTasks(g, o)) <= 1
        /\ BagCount(eraser[o].paths, g) <= 1

\* a gesture wrote a doubly nested child and a drawable, and another gesture
\* wrote a top-level object and the same drawable
C2_Witness ==
    \E g \in Gestures : \E h \in Gestures \ {g} :
        /\ \E o \in Affected(g) : Group(o) = "h"
        /\ \E o \in Affected(g) \cap Affected(h) : o \in Drawables
        /\ "a" \in Affected(h)

\* C3: once a clone promise of a gesture has failed, the canvas fires neither
\* 'erasing:end' nor 'path:created' for that gesture.
C3_FailureAborts ==
    \A g \in Gestures :
        Rejected(g) => gest[g].events = <<"before:path:created">>

\* a gesture with a failed promise whose other promises have all resolved
C3_Witness ==
    \E g \in Gestures :
        /\ Rejected(g)
        /\ \E t \in TasksOf(g) : t.st = "done"
        /\ \A t \in TasksOf(g) : t.st # "pending"

C5_NonErasableUntouched ==
    \A o \in Objs : erasable[o] = "false" => eraser[o] = InitialEraser(o)

\* a gesture has ended that wrote a child of a deep collection whose sibling
\* is not erasable, with a non-erasable drawable on the canvas
C5_Witness ==
    \E g \in Gestures :
        /\ gest[g].status = "ended"
        /\ erasable["b"] = "false"
        /\ "c" \in Affected(g)
        /\ \E p \in Range(Props) : drawable[p] # "none" /\ erasable[drawable[p]] = "false"

\* The deep-erasable collections gesture g's path comes to
RECURSIVE DeepBelow(_)
DeepBelow(o) ==
    IF o \in Collections /\ erasable[o] = "deep"
    THEN {o} \cup UNION {DeepBelow(c) : c \in {d \in Range(Objects(o)) : erasable[d] # "false"}}
    ELSE {}

\* C6: a deep-erasable collection's own eraser is never created or written;
\* once a gesture through it has ended, each erasable child that is not itself
\* a deep-erasable collection holds the gesture's path once, and each
\* non-erasable child is as it was.
C6_DeepCollection ==
    /\ \A o \in Collections : erasable[o] = "deep" => eraser[o] = InitialEraser(o)
    /\ \A g \in Gestures :
         gest[g].status = "ended"
         => \A coll \in UNION {DeepBelow(o) : o \in Range(gest[g].handed)} :
              \A c \in Range(Objects(coll)) :
                 CASE erasable[c] = "false" -> eraser[c] = InitialEraser(c)
                   [] erasable[c] = "deep" /\ c \in Collections -> eraser[c] = InitialEraser(c)
                   [] OTHER -> BagCount(eraser[c].paths, g) = 1

\* an ended gesture went through g into the nested deep collection h
C6_Witness ==
    \E g \in Gestures :
        /\ gest[g].status = "ended"
        /\ "g" \in Range(gest[g].handed)
        /\ erasable["g"] = "deep" /\ erasable["h"] = "deep" /\ erasable["b"] = "false"
        /\ BagCount(eraser["c"].paths, g) = 1

\* C7: a top-level object is handed to the attachment pipeline exactly when
\* it is erasable and its corner polygon (its absolute corners) intersects
\* the path's polygon.
C7_HandedIffIntersects ==
    \A g \in Gestures :
        gest[g].path # <<>>
        => Range(gest[g].handed) =
              {o \in Range(TopObjects) :
                  erasable[o] # "false" /\ RectsOverlap(CalcACoords(o), gest[g].path[1])}

\* C8: when preparePattern has returned, every object's visible flag and
\* eraser, and the canvas' backgroundImage and overlayImage, are what they
\* were when it was called.
C8_PatternRestores ==
    pattern.pc = "done"
    => /\ visible = pattern.pre.visible
       /\ eraser = pattern.pre.eraser
       /\ drawable = pattern.pre.drawable

\* a call in normal mode has returned that took the erasable background off
\* the canvas and hid a child of a nested deep-erasable group, with an
\* object hidden all along
C8_Witness ==
    /\ pattern.pc = "done"
    /\ ~inverted
    /\ backgroundColor /\ drawable["backgroundImage"] = "bg" /\ IsErasable("bg")
    /\ "c" \in Range(pattern.restorationContext.visibility)
    /\ \E o \in Objs : ~visible[o]

\* C9: a main pointer-down on the pencil brush leaves a session that holds
\* the pointer-down point only, captured in the new session, and a false
\* _hasStraightLine, whatever the brush held before.
C9_DownResetsSession ==
    [][\A pointer \in Pointers : \A key \in BOOLEAN :
          OnMouseDown(pointer, TRUE, key)
          => /\ Len(_points') >= 1
             /\ \A i \in 1..Len(_points') : _points'[i] = NewPoint(pointer, session')
             /\ ~_hasStraightLine']_vars

\* the second pointer-down has been handled while the first session, which
\* drew a segment, never got its pointer-up
C9_Witness ==
    /\ session = 2
    /\ Len(_points) = 2 /\ \A i \in 1..2 : _points[i].s = 2
    /\ ~_hasStraightLine
    /\ oldEnd # <<>> /\ oldEnd[1].s = 1

\* C10 as stated: no two consecutive captured points are equal.
C10_NoConsecutiveEqual ==
    \A i \in 1..(Len(_points) - 1) : ~Eq(_points[i], _points[i + 1])

\* C10: a main pointer-move inside the canvas whose point equals the last
\* captured point, with at least two points captured, leaves the captured
\* points as they are.
C10_DuplicateMoveRejected ==
    [][\A pointer \in Pointers : \A key, outside \in BOOLEAN :
          (/\ OnMouseMove(pointer, TRUE, key, outside)
           /\ Len(_points) > 1
           /\ Eq(NewPoint(pointer, session), Last(_points)))
          => _points' = _points]_vars

\* a move with the straight-line key held was rejected on a session of three
\* points: the key is recorded, no straight segment was made
C10_Witness ==
    /\ ~limitedToCanvasSize
    /\ Len(_points) = 3
    /\ drawStraightLine /\ ~_hasStraightLine

\* C11 as stated: a main pointer-move with the straight-line key held and at
\* least two points captured puts the new point in the place of the last
\* captured point, the count unchanged, and sets _hasStraightLine.
C11_StraightMoveReplaces ==
    [][\A pointer \in Pointers : \A outside \in BOOLEAN :
          (/\ OnMouseMove(pointer, TRUE, TRUE, outside)
           /\ Len(_points) > 1)
          => /\ Len(_points') = Len(_points)
             /\ _hasStraightLine'
             /\ Last(_points') = NewPoint(pointer, session)]_vars

\* C11: a main pointer-move with the straight-line key held and at least two
\* points captured, that is not dropped for lying outside the canvas and
\* whose point differs from the last captured point, keeps the count, sets
\* _hasStraightLine and puts the new point in the place of the last captured
\* point; if that leaves exactly two equal points, the re-render sets them
\* apart by width / 1000 each.
C11_DistinctStraightMoveReplaces ==
    [][\A pointer \in Pointers : \A outside \in BOOLEAN :
          LET point == NewPoint(pointer, session)
              n == Len(_points)
          IN (/\ OnMouseMove(pointer, TRUE, TRUE, outside)
              /\ n > 1
              /\ ~(limitedToCanvasSize /\ outside)
              /\ ~Eq(point, Last(_points)))
             => /\ Len(_points') = n
                /\ _hasStraightLine'
                /\ IF n = 2 /\ Eq(point, _points[1])
                   THEN _points' = <<[_points[1] EXCEPT !.x = @ - Correction],
                                     [point EXCEPT !.x = @ + Correction]>>
                   ELSE _points' = Append(SubSeq(_points, 1, n - 1), point)]_vars

\* a straight-line move has replaced the last of three points, the first two
\* being the pointer-down point
C11_Witness ==
    /\ Len(_points) = 3
    /\ _points[1] = _points[2]
    /\ drawStraightLine /\ _hasStraightLine

\* whether a is b with some entries left out
RECURSIVE IsSubsequence(_, _)
IsSubsequence(a, b) ==
    IF a = <<>> THEN TRUE
    ELSE IF b = <<>> THEN FALSE
    ELSE IF Head(a) = Head(b) THEN IsSubsequence(Tail(a), Tail(b))
    ELSE IsSubsequence(a, Tail(b))

\* C12: for an input of at least two points, whatever the threshold and the
\* zoom, decimatePoints returns at least two points, the first and the last
\* of them the first and the last of the input, the input's order kept and
\* no point added.
C12_DecimateKeepsEnds ==
    (call.fn = "decimatePoints" /\ call.done /\ Len(call.points) >= 2)
    => /\ Len(call.result) >= 2
       /\ call.result[1] = call.points[1]
       /\ Last(call.result) = Last(call.points)
       /\ IsSubsequence(call.result, call.points)

\* decimatePoints has returned for five points, one inner point kept and two
\* dropped, and the last point closer to the last kept one than the threshold
C12_Witness ==
    /\ call.fn = "decimatePoints" /\ call.done
    /\ Len(call.points) = 5 /\ Len(call.result) = 3
    /\ call.zoom = 1 /\ call.distance = 2
    /\ call.result[2].x = call.result[3].x /\ call.result[2].y = call.result[3].y

\* C13: a main pointer-up on the pencil brush whose stroke is empty creates
\* and adds no path, fires neither 'before:path:created' nor 'path:created',
\* and still clears the top context and requests a render.
C13_DegenerateDiscarded ==
    [][(OnMouseUp(TRUE) /\ IsEmptySVGPath(_points'))
       => /\ \A i \in 1..Len(pencilLog') :
               pencilLog'[i].op \notin {"add", "before:path:created", "path:created"}
          /\ \E i \in 1..Len(pencilLog') : pencilLog'[i].op = "clearContext"
          /\ \E i \in 1..Len(pencilLog') : pencilLog'[i].op = "requestRenderAll"]_vars

\* The places of op in the log of the last pencil finalization
LogPlaces(log, op) == {i \in 1..Len(log) : log[i].op = op}

\* C14: a main pointer-up on the pencil brush whose stroke is not empty fires
\* 'before:path:created' once, then adds the path to the canvas, then fires
\* 'path:created' once, the three with the same Path object.
C14_EventsAroundInsertion ==
    [][(OnMouseUp(TRUE) /\ ~IsEmptySVGPath(_points'))
       => \E i, j, k \in 1..Len(pencilLog') :
             /\ LogPlaces(pencilLog', "before:path:created") = {i}
             /\ LogPlaces(pencilLog', "add") = {j}
             /\ LogPlaces(pencilLog', "path:created") = {k}
             /\ i < j /\ j < k
             /\ pencilLog'[i].path = pencilLog'[j].path
             /\ pencilLog'[k].path = pencilLog'[j].path
             /\ pencilLog'[j].path # NoPath]_vars

\* a stroke that ends away from where it started has been finalized and added
C14_Witness ==
    /\ Len(_points) >= 2 /\ ~Eq(_points[1], Last(_points))
    /\ oldEnd = <<>> /\ ~drawStraightLine
    /\ \E j \in 1..Len(pencilLog) : pencilLog[j].op = "add" /\ pencilLog[j].path.data = _points

\* C15: a main pointer-up on the pencil brush leaves no session state: no
\* captured points, both straight-line flags false, oldEnd unset.
C15_UpDiscardsSession ==
    [][OnMouseUp(TRUE)
       => /\ _points' = <<>>
          /\ ~_hasStraightLine' /\ ~drawStraightLine'
          /\ oldEnd' = <<>>]_vars

\* The matrix of object n computed from the properties alone, with no cache
RECURSIVE UncachedTransformMatrix(_, _, _)
UncachedTransformMatrix(ps, n, skipGroup) ==
    IF skipGroup \/ ps[n].group = NoGroup THEN OwnMatrix(ps[n])
    ELSE MultiplyTransformMatrices(UncachedTransformMatrix(ps, ps[n].group, FALSE),
                                   OwnMatrix(ps[n]), FALSE)

\* C16: matrix caching is transparent: whatever mutations of the properties
\* of an object or of its group, or of the group membership, came before,
\* calcOwnMatrix() and calcTransformMatrix() return the matrix an uncached
\* computation from the current properties returns.
C16_CachingTransparent ==
    /\ call.fn = "calcOwnMatrix" => call.result = OwnMatrix(props[call.obj])
    /\ call.fn = "calcTransformMatrix"
       => call.result = UncachedTransformMatrix(props, call.obj, call.skipGroup)

\* the determinant a*d - b*c of a matrix
Determinant(t) == Minus(Times(t[1], t[4]), Times(t[2], t[3]))

\* C17: for every matrix M with a non-zero determinant, M * invertTransform(M)
\* and invertTransform(M) * M are the identity matrix [1,0,0,1,0,0], and
\* invertTransform(invertTransform(M)) is M, exactly over the rationals.
C17_InverseIsInverse ==
    (call.fn = "invertTransform" /\ call.done /\ Determinant(call.t) # Num(0))
    => /\ MultiplyTransformMatrices(call.t, call.result, FALSE) = iMatrix
       /\ MultiplyTransformMatrices(call.result, call.t, FALSE) = iMatrix
       /\ InvertTransform(call.result) = call.t

\* a matrix with a shear, an offset and a determinant that is not 1 or -1
\* has been inverted: the inverse has fractional entries
C17_Witness ==
    /\ call.fn = "invertTransform" /\ call.done
    /\ call.t = Mat(2, 1, -1, 1, 1, 2)
    /\ call.result[1] = Rat(1, 3)
    /\ call.result[6] = Num(-1)

\* the entries of a list of matrices that are not falsy
TruthyMatrices(matrices) == SelectSeq(matrices, LAMBDA m : m # Falsy)

\* C18: multiplyTransformMatrixArray([A,B,C]) is A(BC); falsy entries
\* (undefined, null, false) at any positions do not change the result; the
\* empty list and the all-falsy list give the identity matrix.
C18_ArrayIsNestedProduct ==
    (call.fn = "multiplyTransformMatrixArray" /\ call.done)
    => LET ms == TruthyMatrices(call.matrices)
       IN /\ Len(ms) = 0 => call.result = iMatrix
          /\ Len(ms) = 3
             => call.result =
                  MultiplyTransformMatrices(
                      ms[1], MultiplyTransformMatrices(ms[2], ms[3], call.is2x2),
                      call.is2x2)
          /\ call.result = MultiplyTransformMatrixArray(ms, call.is2x2)

\* three different matrices with a falsy entry between them were multiplied,
\* and the reverse order would have given another product
C18_Witness ==
    /\ call.fn = "multiplyTransformMatrixArray" /\ call.done /\ ~call.is2x2
    /\ Len(call.matrices) = 4 /\ call.matrices[2] = Falsy
    /\ Len(TruthyMatrices(call.matrices)) = 3
    /\ call.matrices[1] # call.matrices[3] /\ call.matrices[3] # call.matrices[4]
    /\ call.result #
         MultiplyTransformMatrices(
             call.matrices[4],
             MultiplyTransformMatrices(call.matrices[3], call.matrices[1], FALSE), FALSE)

\* C19 as stated: for any matrix built by composeMatrix from components C,
\* qrDecompose returns scaleX, scaleY, angle and skewX equal to those of C,
\* and skewY equal to 0.
C19_DecomposeRecovers ==
    (call.fn = "qrDecompose" /\ call.done)
    => /\ call.result.scaleX = call.options.scaleX
       /\ call.result.scaleY = call.options.scaleY
       /\ call.result.angle = call.options.angle
       /\ call.result.skewX = call.options.skewX
       /\ call.result.skewY = 0

\* the components qrDecompose can give back: a positive scaleX, no flipX,
\* no skewY, the angle in (-180, 180]
Normalised(c) ==
    /\ Less(Num(0), c.scaleX)
    /\ ~c.flipX
    /\ c.skewY = 0
    /\ c.angle > -180 /\ c.angle <= 180

\* C19, amended: for a matrix built by composeMatrix from components C with
\* scaleX > 0, no flipX, skewY = 0 and the angle in (-180, 180], qrDecompose
\* returns the scaleX, angle and skewX of C, the scaleY of C negated when
\* flipY is set, and skewY = 0.
C19_NormalisedDecomposeRecovers ==
    (call.fn = "qrDecompose" /\ call.done /\ Normalised(call.options))
    => /\ call.result.scaleX = call.options.scaleX
       /\ call.result.scaleY =
            (IF call.options.flipY THEN Neg(call.options.scaleY) ELSE call.options.scaleY)
       /\ call.result.angle = call.options.angle
       /\ call.result.skewX = call.options.skewX
       /\ call.result.skewY = 0

\* a rotated, skewed, translated matrix with two different scales, one of
\* them negative, was decomposed into its components
C19_Witness ==
    /\ call.fn = "qrDecompose" /\ call.done /\ Normalised(call.options)
    /\ call.options.angle = 90 /\ call.options.skewX = 45
    /\ call.options.scaleX = Num(2) /\ call.options.scaleY = Num(-1)
    /\ call.options.translateX = Num(1) /\ ~call.options.flipY
    /\ call.result.angle = 90 /\ call.result.skewX = 45
    /\ call.result.scaleX = Num(2) /\ call.result.scaleY = Num(-1)

\* the four corners of the box of size (w, h) about the point c
CornersAbout(c, w, h) ==
    [tl |-> [x |-> Minus(c.x, Times(w, Half)), y |-> Minus(c.y, Times(h, Half))],
     tr |-> [x |-> Plus(c.x, Times(w, Half)), y |-> Minus(c.y, Times(h, Half))],
     bl |-> [x |-> Minus(c.x, Times(w, Half)), y |-> Plus(c.y, Times(h, Half))],
     br |-> [x |-> Plus(c.x, Times(w, Half)), y |-> Plus(c.y, Times(h, Half))]]

\* the size of an unskewed object on the canvas: the stroke is scaled with
\* the object unless strokeUniform is set
ScaledSize(size, stroke, scale, uniform) ==
    IF uniform THEN Plus(Times(Num(size), Num(scale)), Num(stroke))
    ELSE Times(Num(size + stroke), Num(scale))

\* C20 as stated: for an unrotated, unskewed object of width W, height H
\* and center (cx, cy), calcACoords() returns tl = (cx-W/2, cy-H/2),
\* tr = (cx+W/2, cy-H/2), bl = (cx-W/2, cy+H/2), br = (cx+W/2, cy+H/2),
\* for every origin setting.
C20_CornersAboutCenter ==
    (call.fn = "calcACoords" /\ call.done /\ call.o.angle = 0 /\ call.o.skewX = 0
        /\ call.o.skewY = 0)
    => call.result = CornersAbout(RelativeCenterPoint(call.o), Num(call.o.width),
                             Num(call.o.height))

\* C20, amended: for an unrotated, unskewed object with center (cx, cy),
\* calcACoords() returns the corners (cx -+ W/2, cy -+ H/2) where W and H are
\* the sizes on the canvas, (width + strokeWidth) * scaleX and
\* (height + strokeWidth) * scaleY, or width * scaleX + strokeWidth and
\* height * scaleY + strokeWidth when strokeUniform is set, for every origin
\* setting; the point (left, top) lies at the origin's fraction of that box.
C20_ScaledCornersAboutCenter ==
    (call.fn = "calcACoords" /\ call.done /\ call.o.angle = 0 /\ call.o.skewX = 0
        /\ call.o.skewY = 0)
    => LET o == call.o
           w == ScaledSize(o.width, o.strokeWidth, o.scaleX, o.strokeUniform)
           h == ScaledSize(o.height, o.strokeWidth, o.scaleY, o.strokeUniform)
       IN /\ call.result = CornersAbout(RelativeCenterPoint(o), w, h)
          /\ o.left = Plus(call.result.tl.x, Times(ResolveOrigin(o.originX), w))
          /\ o.top = Plus(call.result.tl.y, Times(ResolveOrigin(o.originY), h))

\* the corners of an unrotated, unskewed object anchored at its right
\* bottom corner, scaled and with a uniform stroke, were computed
C20_Witness ==
    /\ call.fn = "calcACoords" /\ call.done
    /\ call.o.angle = 0 /\ call.o.skewX = 0
    /\ call.o.originX = "right" /\ call.o.originY = "bottom"
    /\ call.o.left = Num(1) /\ call.o.width = 2 /\ call.o.scaleX = 2
    /\ call.o.strokeWidth = 1 /\ call.o.strokeUniform
    /\ call.result.tl.x = Num(-4) /\ call.result.br.x = Num(1)

\* C21: origin translation round-trips: for every origin pair, angle and
\* point p, translateToOriginPoint(translateToCenterPoint(p, ox, oy), ox, oy)
\* is p, and after setPositionByOrigin(pos, ox, oy) the point
\* getPointByOrigin(ox, oy) is pos.
C21_OriginRoundTrip ==
    /\ (call.fn \in {"setPositionByOrigin", "getPointByOrigin"} /\ call.back # <<>>)
       => call.back = call.pos
    /\ (call.fn = "getPointByOrigin" /\ call.done) => call.result = call.pos

\* a turned object anchored at a corner was positioned by another corner:
\* its center is off the position, its left is no longer the one it had
C21_Witness ==
    /\ call.fn = "getPointByOrigin" /\ call.done
    /\ call.o.angle = 90 /\ call.o.originX = "left" /\ call.o.originY = "top"
    /\ call.originX = "right" /\ call.originY = "bottom"
    /\ call.center # call.pos
    /\ call.o.left # Num(1)
    /\ call.result = call.pos

\* a number: finite, an infinity or NaN
IsNumber(p) == Len(p) = 2 /\ p[1] \in Int /\ p[2] \in Nat

\* C22: invertTransform never throws: for a matrix whose determinant is zero
\* it returns a value, with non-finite entries, and callers such as setXY and
\* _addPathToObjectEraser go on with it and complete.
C22_SingularInverseIsValue ==
    (call.fn = "invertTransform" /\ call.done)
    => /\ Len(call.result) = 6 /\ \A i \in 1..6 : IsNumber(call.result[i])
       /\ Determinant(call.t) = Num(0) => \A i \in 1..6 : ~IsFinite(call.result[i])
       /\ call.point # <<>>
          => /\ IsNumber(call.point.x) /\ IsNumber(call.point.y)
             /\ Determinant(call.t) = Num(0)
                => ~IsFinite(call.point.x) /\ ~IsFinite(call.point.y)
       /\ call.desiredTransform # <<>>
          => \A i \in 1..6 : IsNumber(call.desiredTransform[i])

\* a matrix with a zero determinant and non-zero entries was inverted and
\* both callers went on: the inverse holds infinities of both signs
C22_Witness ==
    /\ call.fn = "invertTransform" /\ call.done
    /\ call.t = Mat(1, 1, 1, 1, 1, 0)
    /\ call.result[1] = <<1, 0>> /\ call.result[2] = <<-1, 0>>
    /\ call.point # <<>> /\ call.desiredTransform # <<>>

\* the calls of the intersection tests are made with the default arguments
\* on two objects whose coordinates were refreshed where they are
DefaultCallOnFresh ==
    /\ call.fn = "intersectsWithObject" /\ call.done
    /\ ~call.absolute /\ ~call.calculate
    /\ call.a.was = call.a.at /\ call.b.was = call.b.at

\* C23: for two disjoint axis-aligned rectangles A and B,
\* A.intersectsWithObject(B) and B.intersectsWithObject(A) are false; for A
\* fully inside B, A.isContainedWithinObject(B) is true and
\* intersectsWithObject is true in both directions.
C23_DisjointAndInside ==
    DefaultCallOnFresh
    => /\ ~RectsOverlap(call.a.at, call.b.at) => call.intersects = <<FALSE, FALSE>>
       /\ StrictlyInside(call.a.at, call.b.at)
          => call.contained /\ call.intersects = <<TRUE, TRUE>>

\* on a panned canvas a rectangle inside another one was found contained
\* and intersecting
C23_Witness ==
    /\ DefaultCallOnFresh
    /\ call.v = <<6, 0>>
    /\ StrictlyInside(call.a.at, call.b.at)
    /\ call.contained /\ call.intersects = <<TRUE, TRUE>>

\* an object whose stored coordinates are the ones it has where it is
Refreshed(x) == [x EXCEPT !.was = x.at]

\* what the two calls of intersectsWithObject and the call of
\* isContainedWithinObject return for objects a and b under viewport v
Answers(a, b, v, absolute, calculate) ==
    <<IntersectsWithObject(CoordsOf(a, v), CoordsOf(b, v), absolute, calculate),
      IntersectsWithObject(CoordsOf(b, v), CoordsOf(a, v), absolute, calculate),
      IsContainedWithinObject(CoordsOf(a, v), CoordsOf(b, v), absolute, calculate)>>

\* C29: intersectsWithObject and isContainedWithinObject evaluate both
\* objects in the coordinate set their arguments select: with calculate
\* the result does not depend on the stored aCoords / lineCoords of either
\* object, and with absolute it does not depend on the viewport transform.
C29_SelectedCoordinateSet ==
    (call.fn = "intersectsWithObject" /\ call.done)
    => LET answers == <<call.intersects[1], call.intersects[2], call.contained>>
       IN /\ call.calculate
             => answers = Answers(Refreshed(call.a), Refreshed(call.b), call.v,
                                  call.absolute, TRUE)
          /\ call.absolute
             => answers = Answers(call.a, call.b, <<0, 0>>, TRUE, call.calculate)

\* The points of an input at the places K, in the input's order
RECURSIVE Picked(_, _, _)
Picked(points, K, i) ==
    IF i > Len(points) THEN <<>>
    ELSE (IF i \in K THEN <<points[i]>> ELSE <<>>) \o Picked(points, K, i + 1)

\* The squared distance of points[i] from the last point of K before it
FromLastKept(points, K, i) ==
    LET j == CHOOSE j \in K : j < i /\ \A m \in K : m < i => m <= j
    IN (points[j].x - points[i].x) * (points[j].x - points[i].x)
       + (points[j].y - points[i].y) * (points[j].y - points[i].y)

\* C24: decimatePoints keeps an interior input point only if its squared
\* distance from the last kept point strictly exceeds (decimate / zoom)^2,
\* and discards an interior input point only if it is closer than that
\* threshold to the last kept point; the first and the last input points
\* are always kept.
C24_KeptIffBeyondThreshold ==
    (call.fn = "decimatePoints" /\ call.done /\ Len(call.points) >= 3 /\ call.zoom # 0)
    => \E K \in SUBSET (1..Len(call.points)) :
          /\ 1 \in K /\ Len(call.points) \in K
          /\ call.result = Picked(call.points, K, 1)
          /\ \A i \in 2..(Len(call.points) - 1) :
                LET scaled == FromLastKept(call.points, K, i) * call.zoom * call.zoom
                IN /\ i \in K => scaled > call.distance * call.distance
                   /\ i \notin K => scaled < call.distance * call.distance

\* The leaves a gesture with a path targets
TargetedByPath(g) == IF gest[g].path = <<>> THEN {} ELSE Targeted(g)

\* C25: when a gesture is finalized while the fan-out of an earlier one is
\* pending, no eraser path is lost or duplicated: an eraser never holds two
\* paths of a gesture nor a path of a gesture that did not target its
\* object, it keeps the paths it held before, once the fan-out of a gesture
\* has settled every leaf the gesture targeted holds its path, and the
\* number of paths of an eraser never decreases.
C25_NoPathLostOrDuplicated ==
    /\ [](\A o \in Objs :
            /\ BagCount(eraser[o].paths, 0) = BagCount(InitialEraser(o).paths, 0)
            /\ \A g \in Gestures :
                  /\ BagCount(eraser[o].paths, g) <= 1
                  /\ BagCount(eraser[o].paths, g) = 1 => o \in TargetedByPath(g)
                  /\ (AllFulfilled(g) /\ o \in TargetedByPath(g))
                     => BagCount(eraser[o].paths, g) = 1)
    /\ [][\A o \in Objs : \A g \in 0..MaxGestures :
             BagCount(eraser'[o].paths, g) >= BagCount(eraser[o].paths, g)]_vars

\* two gestures on a leaf that held an older path have both settled, the
\* second one has ended and the first one has not yet: the leaf's eraser
\* holds the older path and one path of each gesture
C25_Witness ==
    /\ Len(gest) = 2
    /\ \A t \in tasks : t.st = "done"
    /\ gest[1].status = "pending" /\ gest[2].status = "ended"
    /\ \E o \in PreErased \cap TargetedByPath(1) \cap TargetedByPath(2) :
          /\ Group(o) # "none"
          /\ \A g \in 0..2 : BagCount(eraser[o].paths, g) = 1

\* C26: on a main pointer-down EraserBrush.onMouseDown resets the stroke
\* session, captures the pointer-down point, prepares the pattern surface,
\* sets the erasing flag, fires 'erasing:start' and renders, in that order;
\* when it returns the brush is in the erasing state with the pointer-down
\* point captured and a prepared pattern.
C26_DownStartsErasing ==
    [][\A pointer \in Pointers :
          EraserOnMouseDown(pointer, TRUE)
          => /\ isErasing'
             /\ _points' # <<>> /\ Last(_points').s = session'
             /\ pattern'.pc = "done"
             /\ \A i \in 1..Len(pencilLog') : pencilLog'[i].op # "TypeError"]_vars

\* the strokes of the last render on context ctx
Strokes(ctx) ==
    {i \in 1..Len(pencilLog) : pencilLog[i].op = "stroke" /\ pencilLog[i].ctx = ctx}

\* C27, as stated: during live rendering the stroke on the main surface uses
\* 'destination-out', and the stroke on the overlay uses 'destination-in'
\* in erase mode and 'source-over' when the brush is inverted.
C27_OverlayByMode ==
    /\ \A i \in Strokes("main") : pencilLog[i].globalCompositeOperation = "destination-out"
    /\ \A i \in Strokes("top") :
          pencilLog[i].globalCompositeOperation =
             (IF inverted THEN "source-over" ELSE "destination-in")

\* C27: during live rendering every stroke on the main surface uses
\* 'destination-out' and every stroke on the overlay uses 'destination-in',
\* whether the brush is inverted or not.
C27_OverlayDestinationIn ==
    /\ \A i \in Strokes("main") : pencilLog[i].globalCompositeOperation = "destination-out"
    /\ \A i \in Strokes("top") : pencilLog[i].globalCompositeOperation = "destination-in"

\* an inverted brush has rendered a stroke on both surfaces, the narrower
\* one on the main surface first
C27_Witness ==
    /\ inverted
    /\ \E i \in Strokes("main") : \E j \in Strokes("top") :
          /\ i < j
          /\ pencilLog[i].lineWidth < pencilLog[j].lineWidth
          /\ pencilLog[j].globalCompositeOperation = "destination-in"

\* The objects the pattern is made for: the top-level objects, with a
\* deep-erasable collection standing for the objects reached through it
RECURSIVE ReachedThrough(_)
ReachedThrough(o) ==
    IF o \in Collections /\ erasable[o] = "deep"
    THEN UNION {ReachedThrough(c) : c \in Range(Objects(o))}
    ELSE {o}

Reached == UNION {ReachedThrough(o) : o \in Range(TopObjects)}

SceneObjects == Objs \ Drawables

\* preparePattern is about to render the objects; in normal mode the
\* reached erasable objects that were visible are hidden and the
\* non-erasable objects are as visible as before
RenderingHidden ==
    /\ \A o \in Reached :
          (pattern.pre.visible[o] /\ erasable[o] # "false") => ~visible[o]
    /\ \A o \in SceneObjects : erasable[o] = "false" => visible[o] = pattern.pre.visible[o]

\* C28, as stated: when preparePattern renders the objects, in normal mode
\* every visible erasable object that is top-level or reached through
\* deep-erasable collections (and is not such a collection) is hidden and
\* every non-erasable object keeps its visibility; in inverted mode no
\* object is hidden and every visible erasable object that has an eraser
\* has it detached.
C28_EveryEraserDetached ==
    pattern.pc = "objects"
    => /\ ~inverted => RenderingHidden
       /\ inverted
          => /\ \A o \in SceneObjects : visible[o] = pattern.pre.visible[o]
             /\ \A o \in SceneObjects :
                   (visible[o] /\ erasable[o] # "false" /\ pattern.pre.eraser[o].has)
                   => ~eraser[o].has

\* C28: when preparePattern renders the objects, in normal mode every
\* visible erasable object that is top-level or reached through
\* deep-erasable collections (and is not such a collection) is hidden and
\* every non-erasable object keeps its visibility; in inverted mode no
\* object is hidden, every such reached visible erasable object that has
\* an eraser has it detached, and every other object keeps its eraser.
C28_ReachedEraserDetached ==
    pattern.pc = "objects"
    => /\ ~inverted => RenderingHidden
       /\ inverted
          => /\ \A o \in SceneObjects : visible[o] = pattern.pre.visible[o]
             /\ \A o \in Reached :
                   (visible[o] /\ erasable[o] # "false" /\ pattern.pre.eraser[o].has)
                   => ~eraser[o].has
             /\ \A o \in SceneObjects \ Reached : eraser[o] = pattern.pre.eraser[o]

\* an inverted brush renders the objects: the eraser of a visible child of a
\* deep-erasable collection is detached, and a visible erasable object of
\* a collection that is not deep-erasable has its eraser on
C28_Witness ==
    /\ pattern.pc = "objects" /\ inverted
    /\ \E o \in Reached :
          Group(o) # "none" /\ visible[o] /\ pattern.pre.eraser[o].has /\ ~eraser[o].has
    /\ \E o \in SceneObjects \ Reached :
          visible[o] /\ erasable[o] # "false" /\ eraser[o].has

\* The objects a path of the heap carries: itself, its clip path, and what
\* a merged clip path stands for
RECURSIVE Carried(_, _)
Carried(heap, id) ==
    IF id = 0 THEN {}
    ELSE {id} \cup Carried(heap, heap[id].clipPath)
              \cup UNION {Carried(heap, heap[id].merged[k]) : k \in DOMAIN heap[id].merged}

\* C30: handing an erase path through a deep-erasable collection with a
\* clip path works on clones only: the gesture's path object and its clip
\* path, and the collection's clip path with its absolutePositioned flag
\* and its transform, stay as they were, and a target outside the
\* collection receives the path without the collection's clip.
C30_ClonesOnly ==
    call.fn = "clonePathWithClipPath"
    => /\ SubSeq(call.heap, 1, Len(call.before)) = call.before
       /\ \A id \in {call.inner, call.inside, call.outside, call.deep, call.leaf} \ {0} :
             Carried(call.heap, id) \cap (1..Len(call.before)) = {}
       /\ call.outside # 0
          => \A id \in Carried(call.heap, call.outside) : call.heap[id].of # call.clip
       /\ call.inside # 0
          => \E id \in Carried(call.heap, call.inside) :
                call.heap[id].of = call.clip /\ ~call.heap[id].absolutePositioned

\* a path with a clip path of its own went through a collection whose clip
\* path is absolutely positioned, and to an object beside the collection:
\* the child's path carries a moved, relative copy of the collection's clip
\* path merged with a copy of the path's own, the other object's path a copy
\* of the path's own clip path only
C30_Witness ==
    /\ call.fn = "clonePathWithClipPath"
    /\ call.inside # 0 /\ call.outside # 0
    /\ call.heap[call.clip].absolutePositioned
    /\ call.heap[call.path].clipPath = call.own
    /\ call.heap[call.outside].clipPath # 0
    /\ call.heap[call.heap[call.outside].clipPath].of = call.own
    /\ call.heap[call.heap[call.inside].clipPath].merged # <<>>
    /\ \E id \in Carried(call.heap, call.inside) :
          /\ call.heap[id].of = call.clip
          /\ call.heap[id].matrix # call.heap[call.clip].matrix

\* The objects of the initial heap that the clip path of path id has copies of
ClipsOf(id) ==
    {call.heap[k].of : k \in Carried(call.heap, call.heap[id].clipPath)} \ {0}

\* the clip paths a path handed below the collection must carry, with the
\* one the gesture's path carried at first
DueClips(collections) ==
    collections \cup (IF call.before[call.path].clipPath # 0 THEN {call.own} ELSE {})

\* the clip path of path id is relative, and so is every copy of a
\* collection's clip path in it
RelativeClip(id) ==
    /\ call.heap[id].clipPath # 0
    /\ ~call.heap[call.heap[id].clipPath].absolutePositioned
    /\ \A k \in Carried(call.heap, call.heap[id].clipPath) :
          call.heap[k].of \in {call.clip, call.nested} => ~call.heap[k].absolutePositioned

\* C31: every eraser path attached to a descendant of nested deep-erasable
\* collections carries a clip path that combines the clip paths of all
\* clipped deep-erasable collections on its ancestor chain, merged with
\* the clip path the path already carried, and that clip path is relative
\* (absolutePositioned false).
C31_ClipsOfAncestors ==
    call.fn = "clonePathWithClipPath"
    => /\ call.inside # 0
          => ClipsOf(call.inside) = DueClips({call.clip}) /\ RelativeClip(call.inside)
       /\ call.leaf # 0
          => /\ ClipsOf(call.leaf) = DueClips({call.clip, call.nested} \ {0})
             /\ RelativeClip(call.leaf)

\* the child of a clipped collection nested in a clipped collection, both
\* clip paths absolutely positioned, was given its path: the path's clip
\* path is a merged one with copies of both
C31_Witness ==
    /\ call.fn = "clonePathWithClipPath"
    /\ call.leaf # 0 /\ call.nested # 0
    /\ call.before[call.clip].absolutePositioned
    /\ call.before[call.nested].absolutePositioned
    /\ call.before[call.path].clipPath = 0
    /\ call.heap[call.heap[call.leaf].clipPath].merged # <<>>
    /\ ClipsOf(call.leaf) = {call.clip, call.nested}

\* how often the canvas fired 'erasing:end' for gesture g
EndCount(g) ==
    Cardinality({i \in 1..Len(gest[g].events) : gest[g].events[i] = "erasing:end"})

SegmentStart(b) == b.oldEnd

\* onMouseMove has drawn an incremental segment in this step
DrawsSegment == oldEnd' # <<>> /\ oldEnd' # oldEnd

\* C33: the cursor an incremental segment starts from is unset or was
\* computed from points of the current session, never one left by an
\* earlier session.
C33_CursorOfSession ==
    [][DrawsSegment =>
        \A i \in 1..Len(SegmentStart(Brush)) : SegmentStart(Brush)[i].s = session]_vars

\* the stored corner sets of object n
StoredSets(n) == <<aCoords[n], lineCoords[n]>>

\* a step that only fills the absent stored sets of object n
FillsAbsent(n) ==
    /\ aCoords[n] # NoCoords => aCoords'[n] = aCoords[n]
    /\ lineCoords[n] # NoCoords => lineCoords'[n] = lineCoords[n]

\* the corners of the object with properties o as they are now, absolute
\* or through the viewport v, mapped as getCoords maps them by matrix t
CornersNow(o, v, absolute, t) ==
    LET c == CornerList(IF absolute THEN ACoords(o) ELSE LineCoords(ACoords(o), v))
    IN IF o.group = NoGroup THEN c ELSE MapPoints(c, t)

\* C34: aCoords and lineCoords change only in setCoords(), or are filled on
\* a read when absent; a mutation of a geometric property leaves them, and
\* getCoords(absolute, true) returns the corners of the current properties
\* and leaves the stored sets as they are.
C34_StoredSetsExplicit ==
    [][\A n \in MObjs :
        /\ StoredSets(n)' # StoredSets(n)
           => /\ call'.obj = n
              /\ \/ call'.fn = "setCoords"
                 \/ call'.fn = "getCoords" /\ ~call'.calculate /\ FillsAbsent(n)
        /\ props' # props => StoredSets(n)' = StoredSets(n)
        /\ (call'.fn = "getCoords" /\ call'.obj = n /\ call'.calculate /\ props' = props)
           => /\ StoredSets(n)' = StoredSets(n)
              /\ call'.result =
                    CornersNow(props[n], vpt, call'.absolute,
                               IF props[n].group = NoGroup THEN <<>>
                               ELSE CalcTransformMatrix(props, Caches, props[n].group,
                                                        FALSE).value)]_vars

\* the object was moved after a setCoords(), and getCoords(true, true) has
\* returned corners that are not the stored ones
C34_Witness ==
    /\ call.fn = "getCoords" /\ call.obj = "m" /\ call.calculate /\ call.absolute
    /\ aCoords["m"] # NoCoords /\ lineCoords["m"] # NoCoords
    /\ aCoords["m"] # ACoords(props["m"])
    /\ props["m"].group = NoGroup
    /\ call.result = CornerList(ACoords(props["m"]))
    /\ call.result # CornerList(aCoords["m"])

\* [cos, sin, -sin, cos, -x*cos + y*sin + x, -x*sin - y*cos + y]
RotationAbout(angle, pivot) ==
    <<Cos(angle), Sin(angle), Neg(Sin(angle)), Cos(angle),
      Plus(Plus(Neg(Times(pivot.x, Cos(angle))), Times(pivot.y, Sin(angle))), pivot.x),
      Plus(Minus(Neg(Times(pivot.x, Sin(angle))), Times(pivot.y, Cos(angle))), pivot.y)>>

\* C35: createRotateMatrix(angle, pivot) is the rotation about the pivot
\* for every pivot, a pivot with exactly one zero coordinate included: it
\* returns [cos, sin, -sin, cos, -x*cos + y*sin + x, -x*sin - y*cos + y]
\* and maps the pivot to itself.
C35_RotationAboutPivot ==
    /\ (call.fn = "createRotateMatrix" /\ call.result # <<>>)
       => call.result = RotationAbout(call.angle, call.pivot)
    /\ (call.fn = "createRotateMatrix" /\ call.image # <<>>)
       => call.image = call.pivot

\* a main pointer-move of the pencil brush has appended a point in a session
PencilAppends ==
    /\ call.fn = "PencilBrush" /\ session >= 1 /\ _points' # _points
    /\ \E pointer \in Pointers : \E key, outside \in BOOLEAN :
          OnMouseMove(pointer, TRUE, key, outside)

\* a main pointer-move of the eraser brush has appended a point
EraserAppends ==
    /\ call.fn = "EraserBrush" /\ _points' # _points /\ Len(_points') > 1
    /\ \E pointer \in Pointers : \E key, outside \in BOOLEAN : \E width \in Widths :
          EraserOnMouseMove(pointer, TRUE, key, outside, width)

\* the handler cleared the capture surface and rendered the whole stroke
FullyRendered(log) ==
    /\ log # <<>> /\ log[1].op = "clearContext"
    /\ \E i \in 2..Len(log) : log[i].op \in {"_render", "stroke"}
    /\ \A i \in 1..Len(log) : log[i].op # "drawSegment"

\* the handler drew one segment, from the cursor c when there is one
OneSegment(log, c) ==
    /\ Cardinality({i \in 1..Len(log) : log[i].op = "drawSegment"}) = 1
    /\ \A i \in 1..Len(log) : log[i].op \notin {"clearContext", "_render"}
    /\ (c # <<>>) = (\E i \in 1..Len(log) : log[i].op = "moveTo")

\* the rest of C36, whatever decides between the two ways of rendering: the
\* straight-segment flag lasts until the next pointer-down, and the eraser
\* brush renders in full
StraightLastsEraserFull ==
    /\ [][(_hasStraightLine /\ ~_hasStraightLine') => session' = session + 1]_vars
    /\ [][EraserAppends => FullyRendered(pencilLog') /\ oldEnd' = oldEnd]_vars

\* C36 as stated: after an append on pointer-move the pencil renders in full
\* whenever the session has a straight segment, and otherwise draws one
\* segment from the cursor and stores its end as the cursor.
C36_FullRenderOnStraightOnly ==
    /\ [][PencilAppends
          => IF _hasStraightLine'
             THEN FullyRendered(pencilLog') /\ oldEnd' = oldEnd
             ELSE /\ OneSegment(pencilLog', oldEnd)
                  /\ oldEnd' = <<_points'[Len(_points') - 1], Last(_points')>>]_vars
    /\ StraightLastsEraserFull

\* C36 (amended): within a pencil stroke session, after an append on
\* pointer-move the brush clears and fully re-renders the capture surface
\* whenever the session has a straight segment or the base brush asks for a
\* full render, for every later append until the next pointer-down, and
\* otherwise draws one segment from the stored cursor and stores its end as
\* the cursor; the eraser brush always renders in full.
C36_FullRenderWhenNeeded ==
    /\ [][PencilAppends
          => IF _hasStraightLine' \/ translucent
             THEN FullyRendered(pencilLog') /\ oldEnd' = oldEnd
             ELSE /\ OneSegment(pencilLog', oldEnd)
                  /\ oldEnd' = <<_points'[Len(_points') - 1], Last(_points')>>]_vars
    /\ StraightLastsEraserFull

\* an opaque pencil whose session has a straight segment has appended a
\* point with the key released again, and rendered in full
C36_Witness ==
    /\ call.fn = "PencilBrush" /\ ~translucent /\ session >= 1
    /\ _hasStraightLine /\ ~drawStraightLine
    /\ Len(_points) = 3
    /\ pencilLog = FullRender

\* the objects below group that receive its eraser's paths
ReceiversBelow(group) == UNION {LeafTargets(o) : o \in Range(Objects(group))}

\* C37: when the promise of Group.applyEraserToObjects has resolved, a group
\* that had an eraser has none, and every path of the former eraser has
\* been attached, as _addPathToObjectEraser attaches it, for every child of
\* the group; for a group without eraser nothing has changed.
C37_EraserMovedToChildren ==
    (call.fn = "applyEraserToObjects" /\ call.pc = "resolved")
    => IF call.eraser.has
       THEN /\ ~eraser[call.obj].has
            /\ \A o \in ReceiversBelow(call.obj) :
                  /\ eraser[o].has
                  /\ \A p \in DOMAIN call.eraser.paths :
                        BagCount(eraser[o].paths, p) = 1
       ELSE eraser = call.before /\ dirty = {} /\ tasks = {}

\* the promise has resolved for a clipped group with two paths in its
\* eraser: both are on the child that is not erasable and on the child of
\* the deep-erasable collection, the group has no eraser
C37_Witness ==
    /\ call.fn = "applyEraserToObjects" /\ call.pc = "resolved"
    /\ Len(GetObjects(call.eraser)) = 2
    /\ "g" \in clipPath
    /\ erasable["b"] = "false" /\ erasable["h"] = "deep" /\ erasable["c"] = "true"
    /\ \A p \in {-1, -2} :
          BagCount(eraser["b"].paths, p) = 1 /\ BagCount(eraser["c"].paths, p) = 1
    /\ ~eraser["g"].has /\ ~eraser["h"].has

\* the objects a fan-out of some gesture targets
TargetedByGestures == UNION {TargetedByPath(g) : g \in 1..Len(gest)}

\* C38: an erase gesture never adds its path to the canvas's objects: in
\* every step of _finalizeAndAddPath and of its fan-out the list of the
\* canvas's objects stays as it is, and of the objects only erasers and
\* dirty flags of targeted objects are written.
C38_ObjectListKept ==
    [][/\ _objects' = _objects
       /\ <<erasable, clipPath, drawable, vpt, aCoords, lineCoords, visible>>'
             = <<erasable, clipPath, drawable, vpt, aCoords, lineCoords, visible>>
       /\ \A o \in Objs :
             (eraser'[o] # eraser[o] \/ o \in dirty' \ dirty) => o \in TargetedByGestures']_vars

\* a gesture's fan-out has ended after attaching the path to an object in a
\* collection and to a drawable; the canvas holds the objects it held
C38_Witness ==
    /\ \E g \in 1..Len(gest) :
          /\ gest[g].status = "ended"
          /\ \E o \in Affected(g) : Group(o) # "none"
          /\ \E o \in Affected(g) : o \in Drawables /\ o \in dirty
    /\ _objects = TopObjects

\* the least and the greatest number of a non-empty set
Least(S) == CHOOSE m \in S : \A n \in S : m <= n
Greatest(S) == CHOOSE m \in S : \A n \in S : n <= m

\* the lists with the entries of points in another order
Reorderings(points) ==
    {[i \in 1..Len(points) |-> points[f[i]]] :
        f \in {h \in [1..Len(points) -> 1..Len(points)] :
                 \A i, j \in 1..Len(points) : h[i] = h[j] => i = j}}

\* C39: makeBoundingBoxFromPoints returns left = min x, top = min y,
\* width = max x - min x, height = max y - min y for a non-empty list, so
\* that width and height are not negative and every point is in the box,
\* whatever the order of the points, and the box 0, 0, 0, 0 for the empty
\* list.
C39_BoxOfExtremes ==
    (call.fn = "makeBoundingBoxFromPoints" /\ call.done)
    => LET points == call.points
           box == call.result
           xs == {points[i].x : i \in 1..Len(points)}
           ys == {points[i].y : i \in 1..Len(points)}
       IN IF points = <<>>
          THEN box = [left |-> 0, top |-> 0, width |-> 0, height |-> 0]
          ELSE /\ box = [left |-> Least(xs), top |-> Least(ys),
                         width |-> Greatest(xs) - Least(xs),
                         height |-> Greatest(ys) - Least(ys)]
               /\ box.width >= 0 /\ box.height >= 0
               /\ \A i \in 1..Len(points) :
                     /\ box.left <= points[i].x /\ points[i].x <= box.left + box.width
                     /\ box.top <= points[i].y /\ points[i].y <= box.top + box.height
               /\ \A other \in Reorderings(points) :
                     MakeBoundingBoxFromPoints(other) = box

\* the box of three points away from the origin, the first of them neither
\* the leftmost nor the topmost
C39_Witness ==
    /\ call.fn = "makeBoundingBoxFromPoints" /\ call.done
    /\ Len(call.points) = 3
    /\ call.result.left > 0 /\ call.result.top > 0
    /\ call.result.width > 0 /\ call.result.height > 0
    /\ call.points[1].x > call.result.left /\ call.points[1].y > call.result.top

====
